---- MODULE Spec2Model ----
(***************************************************************************)
(* A model of the auralogic virtual-inventory core: the script delivery    *)
(* sandbox (ExecuteDeliveryScript / parseDeliveryResult), the stock ledger *)
(* with its order-facing allocation, delivery and release operations, and  *)
(* the order auto-cancel sweep (cancelExpiredOrders / cancelOrder).        *)
(***************************************************************************)
EXTENDS Integers, Sequences, FiniteSets, TLC

(***************************************************************************)
(* Bounds of the model.                                                    *)
(***************************************************************************)
\* longest items array a script returns
MaxItems == 2
\* largest quantity of one order line (static or script)
MaxQty == 2
\* orders
NumOrders == 2
\* rows of the static pool at the start
NumStatic == 2
\* most rows the ledger holds
MaxRows == 3
\* the script pool's total_limit when it is set
MaxLimit == 2
\* concurrent runs of the order sweep
NumSweepers == 2
\* tickets
NumTickets == 2
\* concurrent runs of the ticket sweep
NumTicketSweepers == 2
\* largest configured auto-close hours
MaxHours == 2
\* most entities a sweep of the loop model handles
MaxBatch == 2

\* the most entities that are stale at once where the limit of a query is
\* looked at
MaxStale == 102

\* most lines of an order with virtual stock from script pools
MaxLines == 2

\* calls of ExecuteDeliveryScript
NumCalls == 2

\* instructions of a script's top-level code and of its onDeliver
MaxSteps == 2

\* most entries of the header map of a script's HTTP call
MaxHeaders == 2

\* most steps of a script that are looked at in one invocation
MaxScriptOps == 3

\* number of different SMS payloads
NumPayloads == 2

\* number of ProcessDelayedSMS workers on the same delayed set
NumSmsWorkers == 2

\* most placements of one payload in the delayed set
MaxEnq == 1

\* minutes between two looks at the clock, and the last minute looked at
TickMinutes == 5

MaxClock == 15

\* number of users, of ViewInvoiceByToken requests and of tokens issued
NumUsers == 2

NumViews == 2

MaxTokens == 2
\* the largest small number a page or limit query value spells
MaxQueryInt == 3
\* the most rows a list query counts
MaxTotal == 7
\* the JSON documents a configuration can be, and the most edits, Saves and
\* Tests of one run
NumJsons == 2
MaxEdits == 3
MaxSaves == 2

(***************************************************************************)
(* JavaScript values as goja exports them (result.Export()): a tagged      *)
(* record per Go dynamic type.  A Go type assertion x.(T) succeeds exactly *)
(* when the tag is T's.  A key missing from a map reads as Undef.          *)
(***************************************************************************)
Undef == [t |-> "undefined"]

Null == [t |-> "null"]

Num == [t |-> "number"]

Str(s) == [t |-> "string", v |-> s]

Bool(b) == [t |-> "bool", v |-> b]

Arr(a) == [t |-> "array", v |-> a]

\* an entry of items: {content, remark}
EntryObj(c, r) == [t |-> "object", content |-> c, remark |-> r]

\* the value onDeliver returns: {success, items, message}
ResultObj(s, i, m) == [t |-> "object", success |-> s, items |-> i, message |-> m]

IsString(x) == x.t = "string"

IsBool(x) == x.t = "bool"

SeqsUpTo(S, n) == UNION {[1..k -> S] : k \in 0..n}

ContentVals == {Undef, Str(""), Str("A"), Str("B"), Num}

RemarkVals == {Undef, Str("r"), Num}

EntryVals == {Num} \cup {EntryObj(c, r) : c \in ContentVals, r \in RemarkVals}

SuccessVals == {Undef, Bool(TRUE), Bool(FALSE), Str("yes")}

MessageVals == {Undef, Str(""), Str("no stock"), Num}

ItemsVals == {Undef, Num} \cup {Arr(a) : a \in SeqsUpTo(EntryVals, MaxItems)}

ReturnVals ==
    {Undef, Null, Num, Str("ok")}
        \cup {ResultObj(s, i, m) : s \in SuccessVals, i \in ItemsVals, m \in MessageVals}

(***************************************************************************)
(* Go values of script_delivery_service.go.                                *)
(***************************************************************************)
\* a nil *ScriptDeliveryResult
NilResult == [nil |-> TRUE]

\* a nil error
NilErr == <<>>

\* fmt.Errorf: the text is the format's pieces in order
Errorf(prefix, arg) == <<prefix, arg>>

ErrNoScript == <<"inventory has no script">>

ErrNoFunction == <<"onDeliver function not found in script">>

ErrEmpty == <<"script returned empty result">>

ErrNotObject == <<"script must return an object with {success, items}">>

ErrNoItems == <<"script returned no delivery items">>

GenericFailure == "script delivery failed"

FailedPrefix == "script delivery failed: "

\* the loop without the test of line 413
RECURSIVE ParseItemsKeepEmpty(_)
ParseItemsKeepEmpty(arr) ==
    IF arr = <<>>
    THEN <<>>
    ELSE LET item == Head(arr)
             content == IF item.t = "object" /\ IsString(item.content)
                        THEN item.content.v ELSE ""
             remark == IF item.t = "object" /\ IsString(item.remark)
                       THEN item.remark.v ELSE ""
         IN  (IF item.t = "object" THEN <<[Content |-> content, Remark |-> remark]>> ELSE <<>>)
                 \o ParseItemsKeepEmpty(Tail(arr))

\* the loop of parseDeliveryResult over obj["items"]
RECURSIVE ParseItems(_)
ParseItems(arr) ==
    IF arr = <<>>
    THEN <<>>
    ELSE LET item == Head(arr)
             content == IF item.t = "object" /\ IsString(item.content)
                        THEN item.content.v ELSE ""
             remark == IF item.t = "object" /\ IsString(item.remark)
                       THEN item.remark.v ELSE ""
             di == [Content |-> content, Remark |-> remark]
         IN  (IF item.t = "object" /\ di.Content # "" THEN <<di>> ELSE <<>>)
                 \o ParseItems(Tail(arr))

\* the error of a result without success = true (lines 393-399)
FailureErrorRaw(message) == Errorf(FailedPrefix, message)

FailureError(message) ==
    Errorf(FailedPrefix, IF message = "" THEN GenericFailure ELSE message)

\* the end of parseDeliveryResult (lines 425-429): a count other than the
\* expected one is logged and the items are returned all the same
CountCheckStrict(items, expectedQty) ==
    IF Len(items) # expectedQty
    THEN [items |-> <<>>, err |-> ErrNoItems, warned |-> TRUE]
    ELSE [items |-> items, err |-> NilErr, warned |-> FALSE]

CountCheck(items, expectedQty) ==
    [items |-> items, err |-> NilErr, warned |-> (Len(items) # expectedQty)]

\* a success test that takes everything but false for success
SuccessOfLoose(result) == result.success # Bool(FALSE)

\* obj["success"].(bool) (lines 386-388): false unless a boolean
SuccessOf(result) == IF IsBool(result.success) THEN result.success.v ELSE FALSE

\* parseDeliveryResult without the test for an empty list of items
ParseDeliveryResultAnyItems(result, expectedQty) ==
    IF result.t \in {"undefined", "null"}
    THEN [res |-> NilResult, err |-> ErrEmpty, warned |-> FALSE]
    ELSE IF result.t # "object"
    THEN [res |-> NilResult, err |-> ErrNotObject, warned |-> FALSE]
    ELSE
    LET success == SuccessOf(result)
        message == IF IsString(result.message) THEN result.message.v ELSE ""
        items == IF result.items.t = "array" THEN ParseItems(result.items.v) ELSE <<>>
    IN  IF ~success
        THEN [res |-> [Success |-> FALSE, Items |-> <<>>, Message |-> message],
              err |-> FailureError(message),
              warned |-> FALSE]
        ELSE LET c == CountCheck(items, expectedQty)
             IN  [res |-> [Success |-> TRUE, Items |-> c.items, Message |-> message],
                  err |-> c.err, warned |-> c.warned]

\* parseDeliveryResult(result, expectedQty): the result, the error and
\* whether the count-mismatch warning was logged
ParseDeliveryResult(result, expectedQty) ==
    IF result.t \in {"undefined", "null"}
    THEN [res |-> NilResult, err |-> ErrEmpty, warned |-> FALSE]
    ELSE IF result.t # "object"
    THEN [res |-> NilResult, err |-> ErrNotObject, warned |-> FALSE]
    ELSE
    LET success == SuccessOf(result)
        message == IF IsString(result.message) THEN result.message.v ELSE ""
        items == IF result.items.t = "array" THEN ParseItems(result.items.v) ELSE <<>>
    IN  IF ~success
        THEN [res |-> [Success |-> FALSE, Items |-> <<>>, Message |-> message],
              err |-> FailureError(message),
              warned |-> FALSE]
        ELSE IF Len(items) = 0
        THEN [res |-> [Success |-> TRUE, Items |-> <<>>, Message |-> message],
              err |-> ErrNoItems, warned |-> FALSE]
        ELSE LET c == CountCheck(items, expectedQty)
             IN  [res |-> [Success |-> TRUE, Items |-> c.items, Message |-> message],
                  err |-> c.err, warned |-> c.warned]

(***************************************************************************)
(* A delivery script, by what running it does: whether the pool has script *)
(* text, how vm.RunString ends, what vm.Get("onDeliver") is, how the call  *)
(* ends and the value it returns.  A timeout is vm.Interrupt raised while  *)
(* RunString or the call is running: it surfaces as that step's error.     *)
(***************************************************************************)
Script(text, run, fn, call, ret) ==
    [text |-> text, run |-> run, fn |-> fn, call |-> call, ret |-> ret]

FailingScripts ==
    {Script(FALSE, "ok", "function", "returns", Undef)}
        \cup {Script(TRUE, r, "function", "returns", Undef) : r \in {"error", "timeout"}}
        \cup {Script(TRUE, "ok", f, "returns", Undef) : f \in {"undefined", "not_function"}}
        \cup {Script(TRUE, "ok", "function", c, Undef) : c \in {"throws", "timeout"}}

Scripts == FailingScripts \cup {Script(TRUE, "ok", "function", "returns", v) : v \in ReturnVals}

\* ExecuteDeliveryScript(inventory, order, quantity)
ExecuteDeliveryScript(script, quantity) ==
    IF ~script.text
    THEN [res |-> NilResult, err |-> ErrNoScript, warned |-> FALSE]
    ELSE IF script.run # "ok"
    THEN [res |-> NilResult, err |-> Errorf("script execution error: ", script.run),
          warned |-> FALSE]
    ELSE IF script.fn # "function"
    THEN [res |-> NilResult, err |-> ErrNoFunction, warned |-> FALSE]
    ELSE IF script.call # "returns"
    THEN [res |-> NilResult, err |-> Errorf("onDeliver execution error: ", script.call),
          warned |-> FALSE]
    ELSE ParseDeliveryResult(script.ret, quantity)

(***************************************************************************)
(* State.                                                                  *)
(***************************************************************************)
VARIABLES
    \* the script test run: the script, the quantity and the outcome
    tScript, tQty, tOut,
    \* virtual_product_stocks: the rows, oldest first; a row's id is its index
    stocks,
    \* the script pool: total_limit (0: unlimited) and its sold counter
    totalLimit, soldCount,
    \* orders: status, and the quantity bound to the script pool
    \* (virtual_inventory_bindings with the item's quantity; 0: no binding)
    orderStatus, binding,
    \* whether the order's created_at is older than the sweep's cutoff
    aged,
    \* the sweep runs: where each is, the orders it read and has yet to
    \* handle, and the order whose releases it is running
    swPc, swBatch,
    \* per order: the cancelOrder calls whose update affected a row, those
    \* whose update affected none, and the runs of the release cascade
    cancelWins, cancelSkips, releaseRuns,
    \* what the last allocation or delivery returned
    lastOp,
    \* per order: the rows Reserve handed to it and it still holds
    holds

VARIABLES
    \* tickets: per ticket the row [status, age, msgs, unread, closedAt,
    \* lastBy, msgHours]; age is the hours since last_message_at (-1: NULL)
    tickets,
    \* cfg.Ticket.AutoCloseHours
    ticketHours,
    \* the runs of closeInactiveTickets: where each is, the tickets it read
    \* and has yet to handle, the autoCloseHours it read, its closedCount,
    \* the uncommitted row of its open transaction and what its last
    \* closeTicket call returned
    tsPc, tsBatch, tsHours, tsCount, tsTx, tsRet

VARIABLES
    \* per order: what it holds besides virtual stock (age, remark,
    \* inventory, promo, serials)
    orderExt,
    \* cfg.Order.AutoCancelHours
    orderHours,
    \* the runs of cancelExpiredOrders: the autoCancelHours each read, its
    \* cancelledCount, what its last cancelOrder call returned, and the
    \* releases that call made and those of them that failed
    swHours, swCount, swRet, swTried, swFailed

VARIABLES
    \* per service: where its loop is, whether stopChan is closed, whether
    \* its ticker exists and has a tick in its channel, the entities its
    \* sweep in progress has yet to handle, the wait group's counter and
    \* where the caller of Stop is
    lpPc, lpStop, lpTicker, lpTick, lpLeft, lpWg, lpStopPc

\* one sweep seen over many stale entities: which sweep it is, the stale
\* entities, the position of the run, its batch and its counter
VARIABLES btKind, btStale, btPc, btBatch, btCount

\* the automatic-delivery decision for one order: the order's lines that
\* have virtual stock from script pools, and what was decided
VARIABLES adLines, adOut

\* the calls of ExecuteDeliveryScript: where each is, its script, its
\* interpreter, the instructions its running code has left, its timer, the
\* globals it wrote, what it saw of the globals when it looked, and what it
\* returned; the interpreters made so far: the globals of each and whether
\* it has been told to interrupt
VARIABLES ivPc, ivScript, ivVm, ivLeft, ivTimer, ivWrote, ivSeen, ivRet, vmGlobals, vmIntr

\* one call of http.get, http.post or http.request by a script: the call,
\* where it is, the request it made, what came back from the network and
\* the value it returned to the script
VARIABLES htCall, htPc, htReq, htResp, htOut

\* the configuration of a script pool in one invocation: the stored
\* script_config, where the invocation is, the map config.get reads, the map
\* handed to onDeliver, the objects the script holds, what the last
\* config.get returned and the number of steps of the script so far
VARIABLES cfStored, cfPc, cfLive, cfArg, cfHeld, cfGot, cfOps

\* the order capability of a script in one invocation: the host's order
\* with its items and its user, where the invocation is, the objects the
\* script holds and the number of steps of the script so far
VARIABLES odHost, odPc, odHeld, odOps

\* the stale orders whose cancellation fails with an error on every tick
VARIABLES btFailing

\* the delayed SMS: the time in minutes, the sorted set sms:delayed, how
\* often each payload was placed in it and handed to the provider from it,
\* the last such hand-over, and each ProcessDelayedSMS worker's position,
\* the time of its pass and the entries it read and has not dealt with
VARIABLES smClock, smDelayed, smEnq, smSent, smLast, wkPc, wkNow, wkBatch

\* the invoice of one order: whether invoicing is enabled, the order's
\* status and owner, the keys invoice_dl:<token> and invoice_pending:<user>
\* of the cache, the next random token, the last response with an invoice,
\* and each ViewInvoiceByToken request's position, token, the value it got
\* for the token and its response
VARIABLES invEnabled, invStatus, invOwner, invDl, invPending, invNext, invLast, vwPc, vwTok, vwVal, vwResp

\* the last response of GetVirtualProducts
VARIABLES vpOut

\* one list request: where the handler is, which handler it is, the page
\* and limit it parsed, the total the query counted and its response
VARIABLES pgPc, pgVia, pgPage, pgLimit, pgTotal, pgResp

\* the ConfigEditor of the inventory page: whether it is mounted, rawMode,
\* rawValue, the JSON its entries print to, pendingJsonRef, the JSON the
\* armed debounce timer holds, skipSync, the page's script_config (the value
\* prop); the configuration as the user's latest edit left it, whether the
\* visual editor was used, how often the latest visual change reached
\* onChange, the number of edits; the last Save or Test and their number
VARIABLES ceMounted, ceRawMode, ceRawValue, ceEntries, cePendingJson, ceDebounce, ceSkipSync, ceValue, ceLatest, ceVisual, ceDelivered, ceEdits, svLast, svCount

testVars == <<tScript, tQty, tOut>>

loopVars == <<lpPc, lpStop, lpTicker, lpTick, lpLeft, lpWg, lpStopPc>>

\* the state added after the two sweeps
batchVars == <<btKind, btStale, btPc, btBatch, btCount>>

autoVars == <<adLines, adOut>>

vmVars == <<ivPc, ivScript, ivVm, ivLeft, ivTimer, ivWrote, ivSeen, ivRet, vmGlobals, vmIntr>>

httpVars == <<htCall, htPc, htReq, htResp, htOut>>

cfgVars == <<cfStored, cfPc, cfLive, cfArg, cfHeld, cfGot, cfOps>>

odVars == <<odHost, odPc, odHeld, odOps>>

failVars == <<btFailing>>

smsVars == <<smClock, smDelayed, smEnq, smSent, smLast, wkPc, wkNow, wkBatch>>

invVars == <<invEnabled, invStatus, invOwner, invDl, invPending, invNext, invLast, vwPc, vwTok, vwVal, vwResp>>

vpVars == <<vpOut>>

pgVars == <<pgPc, pgVia, pgPage, pgLimit, pgTotal, pgResp>>

ceVars == <<ceMounted, ceRawMode, ceRawValue, ceEntries, cePendingJson, ceDebounce, ceSkipSync, ceValue, ceLatest, ceVisual, ceDelivered, ceEdits, svLast, svCount>>

moreVars == <<loopVars, batchVars, autoVars, vmVars, httpVars, cfgVars, odVars, failVars, smsVars, invVars, vpVars, pgVars, ceVars>>

cancelVars == <<orderExt, orderHours, swHours, swCount, swRet, swTried, swFailed>>

ticketVars == <<tickets, ticketHours, tsPc, tsBatch, tsHours, tsCount, tsTx, tsRet>>

\* the state of the ticket sweep and of the order sweep in full
extVars == <<ticketVars, cancelVars, moreVars>>

\* the state of the ledger, the orders, the order sweep and the script test
coreVars == <<tScript, tQty, tOut, stocks, totalLimit, soldCount, orderStatus, binding,
              aged, swPc, swBatch, cancelWins, cancelSkips, releaseRuns, lastOp, holds>>

ledgerVars == <<stocks, totalLimit, soldCount, holds>>

orderVars == <<orderStatus, binding, aged>>

sweepVars == <<swPc, swBatch, cancelWins, cancelSkips, releaseRuns>>

vars == <<coreVars, extVars>>

Orders == 1..NumOrders

Sweepers == 1..NumSweepers

(***************************************************************************)
(* The stock ledger.  A row is [status, pool, order]; order 0 is no order. *)
(* A removed row keeps its place with the soft-delete marker "invalid".    *)
(***************************************************************************)
Row(st, pool, o) == [status |-> st, pool |-> pool, order |-> o]

RowIds(rows) == 1..Len(rows)

\* rows of a pool a reservation may take, were the status not looked at
TakeableIdsAnyStatus(rows, pool) ==
    {i \in RowIds(rows) : rows[i].pool = pool /\ rows[i].status \in {"available", "reserved"}}

\* rows of a pool a reservation may take
TakeableIds(rows, pool) ==
    {i \in RowIds(rows) : rows[i].pool = pool /\ rows[i].status = "available"}

\* the q oldest (smallest id) of ids
RECURSIVE Oldest(_, _)
Oldest(ids, q) ==
    IF q = 0 \/ ids = {}
    THEN {}
    ELSE LET m == CHOOSE i \in ids : \A j \in ids : i <= j
         IN  {m} \cup Oldest(ids \ {m}, q - 1)

SetStatus(rows, ids, st, o) ==
    [i \in RowIds(rows) |->
        IF i \in ids THEN [rows[i] EXCEPT !.status = st, !.order = o] ELSE rows[i]]

\* a reservation that takes what there is and then reports the shortage
ReservePartial(rows, pool, q, o) ==
    LET ids == Oldest(TakeableIds(rows, pool), q)
    IN  [ok |-> Cardinality(ids) = q, ids |-> ids,
         rows |-> SetStatus(rows, ids, "reserved", o)]

\* Reserve(pool, quantity) for order o: all of the q oldest available rows,
\* or none
Reserve(rows, pool, q, o) ==
    LET avail == TakeableIds(rows, pool)
    IN  IF Cardinality(avail) < q
        THEN [ok |-> FALSE, ids |-> {}, rows |-> rows]
        ELSE LET ids == Oldest(avail, q)
             IN  [ok |-> TRUE, ids |-> ids, rows |-> SetStatus(rows, ids, "reserved", o)]

ReservedOf(rows, pool, o) ==
    {i \in RowIds(rows) : rows[i].pool = pool /\ rows[i].status = "reserved"
                          /\ rows[i].order = o}

SoldOf(rows, pool, o) ==
    {i \in RowIds(rows) : rows[i].pool = pool /\ rows[i].status = "sold"
                          /\ rows[i].order = o}

\* PendingFor(order): bound quantity less the rows already sold to the order
PendingFor(o) == binding[o] - Cardinality(SoldOf(stocks, "script", o))

\* what one order still has to get from the script pool: its legacy
\* reserved placeholders and its binding's pending quantity
PendingOf(o) ==
    Cardinality(ReservedOf(stocks, "script", o))
        + (IF binding[o] > 0 /\ PendingFor(o) > 0 THEN PendingFor(o) ELSE 0)

RECURSIVE SumPending(_)
SumPending(os) ==
    IF os = {} THEN 0
    ELSE LET o == CHOOSE x \in os : TRUE IN PendingOf(o) + SumPending(os \ {o})

OutstandingPending == SumPending(Orders)

\* PoolLimitExceeded: the binding would take the pool past its total_limit
LimitAllows(q) == totalLimit = 0 \/ soldCount + OutstandingPending + q <= totalLimit

\* a delivery that inserts its rows as reserved
SoldRowsAsReserved(n, o) == [i \in 1..n |-> Row("reserved", "script", o)]

\* CreateSold(pool, content[], orderRef): n rows inserted as sold
RECURSIVE SoldRows(_, _)
SoldRows(n, o) == IF n = 0 THEN <<>> ELSE <<Row("sold", "script", o)>> \o SoldRows(n - 1, o)

NoOp == [op |-> "none"]

\* an operation, the quantity it was to deliver and the error it returned
Op(op, q, err) == [op |-> op, qty |-> q, err |-> err]

(***************************************************************************)
(* Orders: allocation at creation, payment, delivery.                      *)
(***************************************************************************)
\* AllocateForOrder at order creation: Reserve for the static line, Bind
\* for the script line; a failure of either fails the creation as a whole
CreateOrder(o, qs, qj) ==
    /\ orderStatus[o] = "draft"
    /\ qs + qj >= 1
    /\ LET r == Reserve(stocks, "static", qs, o)
       IN  IF ~r.ok
           THEN /\ stocks' = r.rows
                /\ lastOp' = Op("create", 0, <<"InsufficientStock">>)
                /\ UNCHANGED <<holds, binding, orderStatus>>
           ELSE IF qj > 0 /\ ~LimitAllows(qj)
           THEN /\ lastOp' = Op("create", 0, <<"PoolLimitExceeded">>)
                /\ UNCHANGED <<stocks, holds, binding, orderStatus>>
           ELSE /\ stocks' = r.rows
                /\ holds' = [holds EXCEPT ![o] = r.ids]
                /\ binding' = [binding EXCEPT ![o] = qj]
                /\ orderStatus' = [orderStatus EXCEPT ![o] = "pending_payment"]
                /\ lastOp' = Op("create", 0, NilErr)
    /\ UNCHANGED <<totalLimit, soldCount, aged>>
    /\ UNCHANGED sweepVars
    /\ UNCHANGED testVars
    /\ UNCHANGED extVars

\* payment confirmed: pending_payment -> pending
MarkAsPaid(o) ==
    /\ orderStatus[o] = "pending_payment"
    /\ orderStatus' = [orderStatus EXCEPT ![o] = "pending"]
    /\ lastOp' = NoOp
    /\ UNCHANGED <<binding, aged>>
    /\ UNCHANGED ledgerVars
    /\ UNCHANGED sweepVars
    /\ UNCHANGED testVars
    /\ UNCHANGED extVars

\* Deliver for the static lines of a paid order: reserved -> sold
DeliverStatic(o) ==
    /\ orderStatus[o] = "pending"
    /\ ReservedOf(stocks, "static", o) # {}
    /\ stocks' = SetStatus(stocks, ReservedOf(stocks, "static", o), "sold", o)
    /\ holds' = [holds EXCEPT ![o] = {}]
    /\ lastOp' = NoOp
    /\ UNCHANGED <<totalLimit, soldCount>>
    /\ UNCHANGED orderVars
    /\ UNCHANGED sweepVars
    /\ UNCHANGED testVars
    /\ UNCHANGED extVars

\* a script that returns k items with content
ItemsScript(k) ==
    Script(TRUE, "ok", "function", "returns",
           ResultObj(Bool(TRUE), Arr([i \in 1..k |-> EntryObj(Str("A"), Undef)]), Undef))

DeliveryScripts ==
    FailingScripts
        \cup {Script(TRUE, "ok", "function", "returns", v) :
                 v \in {Undef, Num,
                        ResultObj(Bool(FALSE), Arr(<<EntryObj(Str("A"), Undef)>>), Str("no stock")),
                        ResultObj(Undef, Arr(<<EntryObj(Str("A"), Undef)>>), Undef)}}
        \cup {ItemsScript(k) : k \in 0..MaxItems}

\* production delivery takes the result without comparing counts
EnoughItemsUnchecked(items, q) == TRUE

\* production delivery: the returned entries must be enough for the
\* quantity to deliver
EnoughItems(items, q) == Len(items) >= q

\* executeScriptDelivery for the legacy placeholders of the order: the
\* script runs once for the group and the placeholders become sold
DeliverLegacy(o, script) ==
    LET group == ReservedOf(stocks, "script", o)
        q == Cardinality(group)
        r == ExecuteDeliveryScript(script, q)
    IN  /\ group # {}
        /\ IF r.err # NilErr
           THEN /\ lastOp' = Op("deliver", q, r.err)
                /\ UNCHANGED <<stocks, soldCount>>
           ELSE IF ~EnoughItems(r.res.Items, q)
           THEN /\ lastOp' = Op("deliver", q, <<"not enough items">>)
                /\ UNCHANGED <<stocks, soldCount>>
           ELSE /\ stocks' = SetStatus(stocks, group, "sold", o)
                /\ soldCount' = soldCount + q
                /\ lastOp' = Op("deliver", q, NilErr)

\* executeScriptDelivery for the order's binding: the script runs once for
\* the pending quantity and every returned item is inserted as a sold row
DeliverBound(o, script) ==
    LET q == PendingFor(o)
        r == ExecuteDeliveryScript(script, q)
    IN  /\ binding[o] > 0
        /\ q > 0
        /\ IF r.err # NilErr
           THEN /\ lastOp' = Op("deliver", q, r.err)
                /\ UNCHANGED <<stocks, soldCount>>
           ELSE IF ~EnoughItems(r.res.Items, q)
           THEN /\ lastOp' = Op("deliver", q, <<"not enough items">>)
                /\ UNCHANGED <<stocks, soldCount>>
           ELSE /\ Len(stocks) + Len(r.res.Items) <= MaxRows
                /\ stocks' = stocks \o SoldRows(Len(r.res.Items), o)
                /\ soldCount' = soldCount + Len(r.res.Items)
                /\ lastOp' = Op("deliver", q, NilErr)

\* delivery of the script lines of a paid order: the legacy placeholders
\* first, the binding otherwise
DeliverScriptWith(o, script) ==
    /\ orderStatus[o] = "pending"
    /\ IF ReservedOf(stocks, "script", o) # {}
       THEN DeliverLegacy(o, script)
       ELSE DeliverBound(o, script)
    /\ UNCHANGED <<totalLimit, holds>>
    /\ UNCHANGED orderVars
    /\ UNCHANGED sweepVars
    /\ UNCHANGED testVars
    /\ UNCHANGED extVars

DeliverScript(o) == \E script \in DeliveryScripts : DeliverScriptWith(o, script)

(***************************************************************************)
(* The administrator's stock actions.                                      *)
(***************************************************************************)
Unhold(i) == [o \in Orders |-> holds[o] \ {i}]

AdminFrame ==
    /\ lastOp' = NoOp
    /\ UNCHANGED <<totalLimit, soldCount>>
    /\ UNCHANGED orderVars
    /\ UNCHANGED sweepVars
    /\ UNCHANGED testVars
    /\ UNCHANGED extVars

\* manual entry of a card key: a new available row of the static pool
AdminCreateStock ==
    /\ Len(stocks) < MaxRows
    /\ stocks' = Append(stocks, Row("available", "static", 0))
    /\ UNCHANGED holds
    /\ AdminFrame

\* the lock button of an available row
AdminReserve(i) ==
    /\ i \in RowIds(stocks)
    /\ stocks[i].status = "available"
    /\ stocks' = SetStatus(stocks, {i}, "reserved", 0)
    /\ UNCHANGED holds
    /\ AdminFrame

\* the unlock button of a reserved row
AdminRelease(i) ==
    /\ i \in RowIds(stocks)
    /\ stocks[i].status = "reserved"
    /\ stocks' = SetStatus(stocks, {i}, "available", 0)
    /\ holds' = Unhold(i)
    /\ AdminFrame

\* the same guard, were the button offered on sold rows as well
EditPageDeletableWithSold == {"available", "reserved", "sold"}

\* the statuses whose row the inventory page gives a delete button
EditPageDeletable == {"available", "reserved"}

\* the delete button of the inventory page
EditPageDelete(i) ==
    /\ i \in RowIds(stocks)
    /\ stocks[i].status \in EditPageDeletable
    /\ stocks' = SetStatus(stocks, {i}, "invalid", 0)
    /\ holds' = Unhold(i)
    /\ AdminFrame

\* the delete button of the product's stock page
StockPageDelete(i) ==
    /\ i \in RowIds(stocks)
    /\ stocks[i].status = "available"
    /\ stocks' = SetStatus(stocks, {i}, "invalid", 0)
    /\ holds' = Unhold(i)
    /\ AdminFrame

(***************************************************************************)
(* The order sweep.                                                        *)
(***************************************************************************)
\* an order's created_at falls behind now - autoCancelHours
Age(o) ==
    /\ orderStatus[o] # "draft"
    /\ ~aged[o]
    /\ aged' = [aged EXCEPT ![o] = TRUE]
    /\ lastOp' = NoOp
    /\ UNCHANGED <<orderStatus, binding>>
    /\ UNCHANGED ledgerVars
    /\ UNCHANGED sweepVars
    /\ UNCHANGED testVars
    /\ UNCHANGED extVars

\* the orders of a set as a sequence, by id
RECURSIVE AsSeq(_)
AsSeq(os) ==
    IF os = {} THEN <<>>
    ELSE LET m == CHOOSE i \in os : \A j \in os : i <= j
         IN  <<m>> \o AsSeq(os \ {m})

\* cancelExpiredOrders, the query: the stale pending_payment orders
SweepQuery(s) ==
    /\ swPc[s] = "idle"
    /\ LET found == {o \in Orders : orderStatus[o] = "pending_payment" /\ aged[o]}
       IN  /\ found # {}
           /\ swBatch' = [swBatch EXCEPT ![s] = AsSeq(found)]
           /\ swPc' = [swPc EXCEPT ![s] = "update"]
    /\ lastOp' = NoOp
    /\ UNCHANGED <<cancelWins, cancelSkips, releaseRuns>>
    /\ UNCHANGED orderVars
    /\ UNCHANGED ledgerVars
    /\ UNCHANGED testVars
    /\ UNCHANGED extVars

\* the update without its WHERE status = pending_payment
UpdateAffectsAlways(o) == TRUE

\* cancelOrder's conditional update affects a row
UpdateAffects(o) == orderStatus[o] = "pending_payment"

\* the sweep is done with the head of its batch
Advance(s) ==
    /\ swBatch' = [swBatch EXCEPT ![s] = Tail(swBatch[s])]
    /\ swPc' = [swPc EXCEPT ![s] = IF Len(swBatch[s]) = 1 THEN "idle" ELSE "update"]

\* cancelOrder, the conditional update of the order read by the query:
\* zero rows affected returns nil and the loop goes on
CancelUpdate(s) ==
    /\ swPc[s] = "update"
    /\ LET o == Head(swBatch[s])
       IN  IF UpdateAffects(o)
           THEN /\ orderStatus' = [orderStatus EXCEPT ![o] = "cancelled"]
                /\ cancelWins' = [cancelWins EXCEPT ![o] = @ + 1]
                /\ swPc' = [swPc EXCEPT ![s] = "release"]
                /\ lastOp' = NoOp
                /\ UNCHANGED <<swBatch, cancelSkips, releaseRuns>>
           ELSE /\ Advance(s)
                /\ cancelSkips' = [cancelSkips EXCEPT ![o] = @ + 1]
                /\ lastOp' = Op("cancelOrder", 0, NilErr)
                /\ UNCHANGED <<orderStatus, cancelWins, releaseRuns>>
    /\ UNCHANGED <<binding, aged>>
    /\ UNCHANGED ledgerVars
    /\ UNCHANGED testVars
    /\ UNCHANGED extVars

\* ReleaseStock(orderNo): the order's reserved rows of the static pool are
\* available again, its reserved placeholders of the script pool are
\* deleted
ReleaseStock(rows, o) ==
    [i \in RowIds(rows) |->
        IF rows[i].status = "reserved" /\ rows[i].order = o
        THEN IF rows[i].pool = "script"
             THEN [rows[i] EXCEPT !.status = "invalid", !.order = 0]
             ELSE [rows[i] EXCEPT !.status = "available", !.order = 0]
        ELSE rows[i]]

\* cancelOrder after its update took effect: the releases
CancelRelease(s) ==
    /\ swPc[s] = "release"
    /\ LET o == Head(swBatch[s])
       IN  /\ stocks' = ReleaseStock(stocks, o)
           /\ holds' = [holds EXCEPT ![o] = {}]
           /\ binding' = [binding EXCEPT ![o] = 0]
           /\ releaseRuns' = [releaseRuns EXCEPT ![o] = @ + 1]
    /\ Advance(s)
    /\ lastOp' = Op("cancelOrder", 0, NilErr)
    /\ UNCHANGED <<orderStatus, aged, cancelWins, cancelSkips, totalLimit, soldCount>>
    /\ UNCHANGED testVars
    /\ UNCHANGED extVars

(***************************************************************************)
(* The ticket sweep (TicketAutoCloseService).                              *)
(***************************************************************************)
Tickets == 1..NumTickets

TicketSweepers == 1..NumTicketSweepers

\* activeStatuses
ActiveStatuses == {"open", "processing", "resolved"}

\* Limit(100) of the sweeps' queries
QueryLimit == 100

\* a query without its limit
TakeAll(seq, n) == seq

\* the first n elements of a sequence
Take(seq, n) == SubSeq(seq, 1, IF Len(seq) < n THEN Len(seq) ELSE n)

\* a ticket row
Ticket(st, age, msgs, unread, closedAt, lastBy, msgHours) ==
    [status |-> st, age |-> age, msgs |-> msgs, unread |-> unread,
     closedAt |-> closedAt, lastBy |-> lastBy, msgHours |-> msgHours]

\* no transaction open
NoTx == [open |-> FALSE]

\* no closeTicket call yet in this run
NoRet == "none"

\* the row is written by no open transaction of another run
Unlocked(t) ==
    ~\E s \in TicketSweepers : tsTx[s].open /\ Head(tsBatch[s]) = t

TicketFrame ==
    /\ UNCHANGED <<tsPc, tsBatch, tsHours, tsCount, tsTx, tsRet, ticketHours>>
    /\ UNCHANGED coreVars
    /\ UNCHANGED <<cancelVars, moreVars>>

\* an hour goes by without a message on the ticket
TkPass(t) ==
    /\ tickets[t].age >= 0
    /\ tickets[t].age <= MaxHours
    /\ Unlocked(t)
    /\ tickets' = [tickets EXCEPT ![t].age = @ + 1]
    /\ TicketFrame

\* the user writes on an active ticket: last_message_at = now
TkReply(t) ==
    /\ tickets[t].status \in ActiveStatuses
    /\ Unlocked(t)
    /\ tickets[t].age # 0 \/ tickets[t].lastBy # "user"
    /\ tickets' = [tickets EXCEPT ![t].age = 0, ![t].lastBy = "user"]
    /\ TicketFrame

\* another flow changes the status of an active ticket (staff work on
\* it, staff or the user close it)
TkSetStatus(t, st) ==
    /\ tickets[t].status \in ActiveStatuses
    /\ st # tickets[t].status
    /\ Unlocked(t)
    /\ tickets' = [tickets EXCEPT ![t].status = st]
    /\ TicketFrame

\* the configuration is changed at run time
SetTicketHours(h) ==
    /\ h # ticketHours
    /\ ticketHours' = h
    /\ UNCHANGED <<tickets, tsPc, tsBatch, tsHours, tsCount, tsTx, tsRet>>
    /\ UNCHANGED coreVars
    /\ UNCHANGED <<cancelVars, moreVars>>

\* the tickets of a set as a sequence, by id
RECURSIVE TicketSeq(_)
TicketSeq(ts) ==
    IF ts = {} THEN <<>>
    ELSE LET m == CHOOSE i \in ts : \A j \in ts : i <= j
         IN  <<m>> \o TicketSeq(ts \ {m})

\* a query without its condition on the status
InactiveAnyStatus(t, hours) ==
    /\ tickets[t].age >= 0
    /\ tickets[t].age > hours

\* status IN activeStatuses AND last_message_at IS NOT NULL AND
\* last_message_at < now - hours
Inactive(t, hours) ==
    /\ tickets[t].status \in ActiveStatuses
    /\ tickets[t].age >= 0
    /\ tickets[t].age > hours

\* closeInactiveTickets up to its loop: the hours are read, the inactive
\* tickets queried; nothing to do with hours <= 0 or no ticket found
TkQuery(s) ==
    /\ tsPc[s] = "idle"
    /\ tsHours' = [tsHours EXCEPT ![s] = ticketHours]
    /\ tsCount' = [tsCount EXCEPT ![s] = 0]
    /\ tsRet' = [tsRet EXCEPT ![s] = NoRet]
    /\ LET found == IF ticketHours <= 0 THEN {}
                    ELSE {t \in Tickets : Inactive(t, ticketHours)}
       IN  /\ tsBatch' = [tsBatch EXCEPT ![s] = Take(TicketSeq(found), QueryLimit)]
           /\ tsPc' = [tsPc EXCEPT ![s] = IF found = {} THEN "idle" ELSE "update"]
    /\ UNCHANGED <<tickets, ticketHours, tsTx>>
    /\ UNCHANGED coreVars
    /\ UNCHANGED <<cancelVars, moreVars>>

\* the conditional update without its WHERE status IN activeStatuses
TkUpdateAffectsAlways(t) == TRUE

\* closeTicket's conditional update affects a row
TkUpdateAffects(t) == tickets[t].status \in ActiveStatuses

\* a transaction that keeps its writes when its function returns an error
RollbackKeepsWrites(written, before) == written

\* db.Transaction when its function returns an error: the writes are undone
Rollback(written, before) == before

\* a loop that counts the entity whatever the call returned
CountedAlways(ret) == TRUE

\* the loop of a sweep counts the entity unless the call returned an
\* error (log, continue)
Counted(ret) == ret = "nil"

\* closeTicket returned: the loop counts it unless it is an error and goes
\* on with the next ticket
TkReturn(s, ret) ==
    /\ tsRet' = [tsRet EXCEPT ![s] = ret]
    /\ tsCount' = [tsCount EXCEPT ![s] = IF Counted(ret) THEN @ + 1 ELSE @]
    /\ tsBatch' = [tsBatch EXCEPT ![s] = Tail(tsBatch[s])]
    /\ tsPc' = [tsPc EXCEPT ![s] = IF Len(tsBatch[s]) = 1 THEN "idle" ELSE "update"]
    /\ tsTx' = [tsTx EXCEPT ![s] = NoTx]

\* closeTicket, the conditional update in its transaction: an error
\* returns it, zero rows affected return nil, else status and closed_at
\* are written
TkUpdate(s, outcome) ==
    /\ tsPc[s] = "update"
    /\ LET t == Head(tsBatch[s])
       IN  /\ Unlocked(t)
           /\ IF outcome = "error"
              THEN /\ TkReturn(s, "err")
                   /\ UNCHANGED tickets
              ELSE IF ~TkUpdateAffects(t)
              THEN /\ TkReturn(s, "nil")
                   /\ UNCHANGED tickets
              ELSE /\ tsTx' = [tsTx EXCEPT ![s] =
                                  [open |-> TRUE,
                                   row |-> [tickets[t] EXCEPT !.status = "closed",
                                                              !.closedAt = TRUE]]]
                   /\ tsPc' = [tsPc EXCEPT ![s] = "create"]
                   /\ UNCHANGED <<tickets, tsBatch, tsCount, tsRet>>
    /\ UNCHANGED <<ticketHours, tsHours>>
    /\ UNCHANGED coreVars
    /\ UNCHANGED <<cancelVars, moreVars>>

\* closeTicket, tx.Create(sysMsg): the message names the hours of this run
TkCreate(s, outcome) ==
    /\ tsPc[s] = "create"
    /\ LET t == Head(tsBatch[s])
       IN  IF outcome = "error"
           THEN /\ tickets' = [tickets EXCEPT ![t] = Rollback(tsTx[s].row, tickets[t])]
                /\ TkReturn(s, "err")
           ELSE /\ tsTx' = [tsTx EXCEPT ![s].row.msgs = @ + 1,
                                        ![s].row.msgHours = tsHours[s]]
                /\ tsPc' = [tsPc EXCEPT ![s] = "counters"]
                /\ UNCHANGED <<tickets, tsBatch, tsCount, tsRet>>
    /\ UNCHANGED <<ticketHours, tsHours>>
    /\ UNCHANGED coreVars
    /\ UNCHANGED <<cancelVars, moreVars>>

\* closeTicket, the update of the unread counter and the last-message
\* fields, then the commit
TkCounters(s, outcome) ==
    /\ tsPc[s] = "counters"
    /\ LET t == Head(tsBatch[s])
           row == [tsTx[s].row EXCEPT !.unread = @ + 1, !.age = 0, !.lastBy = "admin"]
       IN  IF outcome = "error"
           THEN /\ tickets' = [tickets EXCEPT ![t] = Rollback(tsTx[s].row, tickets[t])]
                /\ TkReturn(s, "err")
           ELSE IF outcome = "commit_error"
           THEN /\ tickets' = [tickets EXCEPT ![t] = Rollback(row, tickets[t])]
                /\ TkReturn(s, "err")
           ELSE /\ tickets' = [tickets EXCEPT ![t] = row]
                /\ TkReturn(s, "nil")
    /\ UNCHANGED <<ticketHours, tsHours>>
    /\ UNCHANGED coreVars
    /\ UNCHANGED <<cancelVars, moreVars>>

(***************************************************************************)
(* The order sweep in full: the configured hours, the query, cancelOrder   *)
(* with the error of its update and with each of its releases failing or   *)
(* not, and the loop's count.                                              *)
(***************************************************************************)
\* defaultAutoCancelHours
DefaultAutoCancelHours == 72

\* getAutoCancelHours without its default
GetAutoCancelHoursAsConfigured(h) == h

\* getAutoCancelHours
GetAutoCancelHours(h) == IF h > 0 THEN h ELSE DefaultAutoCancelHours

\* the hours that tell the configured thresholds and the default apart
AgeVals == (0..(MaxHours + 1)) \cup {DefaultAutoCancelHours, DefaultAutoCancelHours + 1}

OrderStatuses ==
    {"draft", "need_resubmit", "pending_payment", "pending", "completed", "cancelled"}

\* what an order holds besides its virtual stock: the hours since
\* created_at, the hours named in admin_remark (0: no remark), the
\* quantity reserved in the physical inventory bound to its item (0: no
\* binding), its promo code (none, reserved, released) and whether serials
\* are linked to it
OrderExt(age, remark, inventory, promo, serials) ==
    [age |-> age, remark |-> remark, inventory |-> inventory, promo |-> promo,
     serials |-> serials]

CoFrame ==
    /\ UNCHANGED <<tScript, tQty, tOut, totalLimit, soldCount, aged, cancelWins,
                   cancelSkips, releaseRuns, lastOp>>
    /\ UNCHANGED <<ticketVars, moreVars>>

\* time goes by: created_at falls further behind
OrderPass(o) ==
    /\ \E a \in AgeVals : a > orderExt[o].age
    /\ orderExt' = [orderExt EXCEPT ![o].age =
                       CHOOSE a \in AgeVals :
                           /\ a > orderExt[o].age
                           /\ \A b \in AgeVals : b > orderExt[o].age => a <= b]
    /\ UNCHANGED <<orderStatus, binding, stocks, holds, swPc, swBatch>>
    /\ UNCHANGED <<orderHours, swHours, swCount, swRet, swTried, swFailed>>
    /\ CoFrame

\* cfg.Order.AutoCancelHours is changed at run time
SetOrderHours(h) ==
    /\ h # orderHours
    /\ orderHours' = h
    /\ UNCHANGED <<orderStatus, binding, stocks, holds, swPc, swBatch>>
    /\ UNCHANGED <<orderExt, swHours, swCount, swRet, swTried, swFailed>>
    /\ CoFrame

\* the status changes of the other flows: submission, payment, completion
FlowChanges ==
    {<<"draft", "pending_payment">>, <<"need_resubmit", "pending_payment">>,
     <<"pending_payment", "need_resubmit">>, <<"pending_payment", "pending">>,
     <<"pending", "completed">>}

\* another flow changes the order's status
OtherFlow(o, st) ==
    /\ <<orderStatus[o], st>> \in FlowChanges
    /\ orderStatus' = [orderStatus EXCEPT ![o] = st]
    /\ UNCHANGED <<binding, stocks, holds, swPc, swBatch>>
    /\ UNCHANGED <<orderExt, orderHours, swHours, swCount, swRet, swTried, swFailed>>
    /\ CoFrame

\* the query's predicate without its status
ExpiredAnyStatus(o, hours) == orderExt[o].age > hours

\* status = pending_payment AND created_at < now - hours
Expired(o, hours) == orderStatus[o] = "pending_payment" /\ orderExt[o].age > hours

\* cancelExpiredOrders up to its loop: the hours are read, the expired
\* orders queried; nothing to do when none is found
CoQuery(s) ==
    /\ swPc[s] = "idle"
    /\ LET hours == GetAutoCancelHours(orderHours)
           found == {o \in Orders : Expired(o, hours)}
       IN  /\ swHours' = [swHours EXCEPT ![s] = hours]
           /\ swBatch' = [swBatch EXCEPT ![s] = Take(AsSeq(found), QueryLimit)]
           /\ swPc' = [swPc EXCEPT ![s] = IF found = {} THEN "idle" ELSE "update"]
    /\ swCount' = [swCount EXCEPT ![s] = 0]
    /\ swRet' = [swRet EXCEPT ![s] = NoRet]
    /\ swTried' = [swTried EXCEPT ![s] = {}]
    /\ swFailed' = [swFailed EXCEPT ![s] = {}]
    /\ UNCHANGED <<orderStatus, binding, stocks, holds, orderExt, orderHours>>
    /\ CoFrame

\* cancelOrder returned: the loop counts it unless it is an error and goes
\* on with the next order
CoReturn(s, ret) ==
    /\ swRet' = [swRet EXCEPT ![s] = ret]
    /\ swCount' = [swCount EXCEPT ![s] = IF Counted(ret) THEN @ + 1 ELSE @]
    /\ Advance(s)

\* cancelOrder, the conditional update: an error returns it, zero rows
\* affected return nil, else the order is cancelled with its remark
CoUpdate(s, outcome) ==
    /\ swPc[s] = "update"
    /\ LET o == Head(swBatch[s])
       IN  IF outcome = "error"
           THEN /\ CoReturn(s, "err")
                /\ UNCHANGED <<orderStatus, orderExt>>
           ELSE IF ~UpdateAffects(o)
           THEN /\ CoReturn(s, "nil")
                /\ UNCHANGED <<orderStatus, orderExt>>
           ELSE /\ orderStatus' = [orderStatus EXCEPT ![o] = "cancelled"]
                /\ orderExt' = [orderExt EXCEPT ![o].remark = swHours[s]]
                /\ swPc' = [swPc EXCEPT ![s] = "release"]
                /\ UNCHANGED <<swBatch, swCount, swRet>>
    /\ swTried' = [swTried EXCEPT ![s] = {}]
    /\ swFailed' = [swFailed EXCEPT ![s] = {}]
    /\ UNCHANGED <<binding, stocks, holds, orderHours, swHours>>
    /\ CoFrame

\* the releases of cancelOrder, in the order of the code
ReleaseSteps == <<"inventory", "virtual", "promo", "serial">>

\* the release is called for the order: the item has an inventory binding,
\* the order has a promo code (the two services are set)
Applies(r, o) ==
    CASE r = "inventory" -> orderExt[o].inventory > 0
      [] r = "virtual" -> TRUE
      [] r = "promo" -> orderExt[o].promo # "none"
      [] r = "serial" -> TRUE

\* a failed release that ends the cascade
AfterFailureStop(rest) == <<>>

\* a failed release is logged and the cascade goes on
AfterFailure(rest) == rest

\* the releases cancelOrder calls and those that failed, when the releases
\* of `failing` return an error
RECURSIVE RunReleases(_, _, _, _)
RunReleases(steps, o, failing, acc) ==
    IF steps = <<>> THEN acc
    ELSE LET r == Head(steps)
         IN  IF ~Applies(r, o)
             THEN RunReleases(Tail(steps), o, failing, acc)
             ELSE IF r \in failing
             THEN RunReleases(AfterFailure(Tail(steps)), o, failing,
                              [tried |-> acc.tried \cup {r},
                               failed |-> acc.failed \cup {r}])
             ELSE RunReleases(Tail(steps), o, failing,
                              [tried |-> acc.tried \cup {r}, failed |-> acc.failed])

\* cancelOrder after its update took effect: each release that went
\* through frees its resource, then the call returns nil
CoRelease(s, failing) ==
    /\ swPc[s] = "release"
    /\ LET o == Head(swBatch[s])
           run == RunReleases(ReleaseSteps, o, failing, [tried |-> {}, failed |-> {}])
           done == run.tried \ run.failed
       IN  /\ failing \subseteq {r \in {"inventory", "virtual", "promo", "serial"} :
                                    Applies(r, o)}
           /\ swTried' = [swTried EXCEPT ![s] = run.tried]
           /\ swFailed' = [swFailed EXCEPT ![s] = run.failed]
           /\ orderExt' = [orderExt EXCEPT
                  ![o].inventory = IF "inventory" \in done THEN 0 ELSE @,
                  ![o].promo = IF "promo" \in done THEN "released" ELSE @,
                  ![o].serials = IF "serial" \in done THEN FALSE ELSE @]
           /\ stocks' = IF "virtual" \in done THEN ReleaseStock(stocks, o) ELSE stocks
           /\ holds' = IF "virtual" \in done THEN [holds EXCEPT ![o] = {}] ELSE holds
           /\ binding' = IF "virtual" \in done THEN [binding EXCEPT ![o] = 0] ELSE binding
    /\ CoReturn(s, "nil")
    /\ UNCHANGED <<orderStatus, orderHours, swHours>>
    /\ CoFrame

(***************************************************************************)
(* Start, Stop and the loop of the two services (cancelLoop, closeLoop).   *)
(***************************************************************************)
Services == {"order", "ticket"}

LoopFrame ==
    /\ UNCHANGED coreVars
    /\ UNCHANGED <<ticketVars, cancelVars, batchVars, autoVars, vmVars, httpVars, cfgVars, odVars, failVars, smsVars, invVars, vpVars, pgVars, ceVars>>

\* Start: wg.Add(1); go loop()
Start(k) ==
    /\ lpPc[k] = "new"
    /\ lpWg' = [lpWg EXCEPT ![k] = @ + 1]
    /\ lpPc' = [lpPc EXCEPT ![k] = "started"]
    /\ UNCHANGED <<lpStop, lpTicker, lpTick, lpLeft, lpStopPc>>
    /\ LoopFrame

\* Stop: close(stopChan), then wg.Wait()
StopSignal(k) ==
    /\ lpPc[k] # "new"
    /\ lpStopPc[k] = "none"
    /\ lpStop' = [lpStop EXCEPT ![k] = TRUE]
    /\ lpStopPc' = [lpStopPc EXCEPT ![k] = "waiting"]
    /\ UNCHANGED <<lpPc, lpTicker, lpTick, lpLeft, lpWg>>
    /\ LoopFrame

\* wg.Wait() returns once the counter is zero
StopReturn(k) ==
    /\ lpStopPc[k] = "waiting"
    /\ lpWg[k] = 0
    /\ lpStopPc' = [lpStopPc EXCEPT ![k] = "returned"]
    /\ UNCHANGED <<lpPc, lpStop, lpTicker, lpTick, lpLeft, lpWg>>
    /\ LoopFrame

\* the goroutine runs the sweep of its start
LoopFirst(k, n) ==
    /\ lpPc[k] = "started"
    /\ lpPc' = [lpPc EXCEPT ![k] = "sweeping"]
    /\ lpLeft' = [lpLeft EXCEPT ![k] = n]
    /\ UNCHANGED <<lpStop, lpTicker, lpTick, lpWg, lpStopPc>>
    /\ LoopFrame

\* the sweep in progress handles one more entity
LoopSweep(k) ==
    /\ lpPc[k] = "sweeping"
    /\ lpLeft[k] > 0
    /\ lpLeft' = [lpLeft EXCEPT ![k] = @ - 1]
    /\ UNCHANGED <<lpPc, lpStop, lpTicker, lpTick, lpWg, lpStopPc>>
    /\ LoopFrame

\* the sweep returns and the loop is at its select (after the first
\* sweep, with its ticker made)
LoopSelect(k) ==
    /\ lpPc[k] = "sweeping"
    /\ lpLeft[k] = 0
    /\ lpPc' = [lpPc EXCEPT ![k] = "select"]
    /\ lpTicker' = [lpTicker EXCEPT ![k] = TRUE]
    /\ UNCHANGED <<lpStop, lpTick, lpLeft, lpWg, lpStopPc>>
    /\ LoopFrame

\* checkInterval has gone by: the ticker puts a tick in its channel (of
\* capacity one) while the loop sweeps or waits
TickerFires(k) ==
    /\ lpPc[k] \in {"sweeping", "select"}
    /\ lpTicker[k]
    /\ ~lpTick[k]
    /\ lpTick' = [lpTick EXCEPT ![k] = TRUE]
    /\ UNCHANGED <<lpPc, lpStop, lpTicker, lpLeft, lpWg, lpStopPc>>
    /\ LoopFrame

\* select, case <-stopChan (it is closed): return, with wg.Done and
\* ticker.Stop deferred
SelectStop(k) ==
    /\ lpPc[k] = "select"
    /\ lpStop[k]
    /\ lpPc' = [lpPc EXCEPT ![k] = "exited"]
    /\ lpWg' = [lpWg EXCEPT ![k] = @ - 1]
    /\ lpTick' = [lpTick EXCEPT ![k] = FALSE]
    /\ lpTicker' = [lpTicker EXCEPT ![k] = FALSE]
    /\ UNCHANGED <<lpStop, lpLeft, lpStopPc>>
    /\ LoopFrame

\* select, case <-ticker.C (a tick is ready): the next sweep; select
\* takes any case that is ready, whatever else is ready
SelectTick(k, n) ==
    /\ lpPc[k] = "select"
    /\ lpTick[k]
    /\ lpTick' = [lpTick EXCEPT ![k] = FALSE]
    /\ lpPc' = [lpPc EXCEPT ![k] = "sweeping"]
    /\ lpLeft' = [lpLeft EXCEPT ![k] = n]
    /\ UNCHANGED <<lpStop, lpTicker, lpWg, lpStopPc>>
    /\ LoopFrame

(***************************************************************************)
(* One sweep over more stale entities than its query takes.  The entities  *)
(* are their numbers; a call that ends well takes its entity out of the    *)
(* stale ones (the order is cancelled, the ticket is closed).              *)
(***************************************************************************)
StaleIds == 1..MaxStale

BatchFrame ==
    /\ UNCHANGED coreVars
    /\ UNCHANGED <<ticketVars, cancelVars, loopVars, autoVars, vmVars, httpVars, cfgVars, odVars, failVars, smsVars, invVars, vpVars, pgVars, ceVars>>

\* the rows a query finds, by their numbers
RowsOf(ids) ==
    [i \in 1..Cardinality(ids) |->
        CHOOSE e \in ids : Cardinality({f \in ids : f < e}) = i - 1]

\* cancelExpiredOrders / closeInactiveTickets: the query of the tick, at
\* most Limit(100) rows
BtQuery ==
    /\ btPc = "idle"
    /\ LET batch == Take(RowsOf(btStale), QueryLimit)
       IN  /\ btBatch' = batch
           /\ btPc' = IF batch = <<>> THEN "idle" ELSE "update"
    /\ btCount' = 0
    /\ UNCHANGED <<btKind, btStale>>
    /\ BatchFrame

\* the loop of the tick: the call on the next entity of the batch
BtCall(ret) ==
    /\ btPc = "update"
    /\ btStale' = IF ret = "nil" THEN btStale \ {Head(btBatch)} ELSE btStale
    /\ btCount' = IF Counted(ret) THEN btCount + 1 ELSE btCount
    /\ btBatch' = Tail(btBatch)
    /\ btPc' = IF Tail(btBatch) = <<>> THEN "idle" ELSE "update"
    /\ UNCHANGED btKind
    /\ BatchFrame

\* the loop of cancelExpiredOrders: cancelOrder on the next order of the
\* batch returns an error every time for the orders that keep failing
CancelNext ==
    /\ btPc = "update"
    /\ BtCall(IF Head(btBatch) \in btFailing THEN "err" ELSE "nil")

(***************************************************************************)
(* ReleaseForOrder called by itself, on any order and any number of times. *)
(***************************************************************************)
\* a release that leaves the binding of the order in place
UnbindNothing(b, o) == b

\* Unbind(order): the order's bindings are cleared
Unbind(b, o) == [b EXCEPT ![o] = 0]

\* a release that leaves the placeholders of script pools reserved
ReleaseStockStaticOnly(rows, o) ==
    [i \in RowIds(rows) |->
        IF rows[i].status = "reserved" /\ rows[i].order = o /\ rows[i].pool # "script"
        THEN [rows[i] EXCEPT !.status = "available", !.order = 0]
        ELSE rows[i]]

\* Release(orderRef): what ReleaseStock does to the rows, the release of
\* the sweep called by itself
Release(rows, o) == ReleaseStock(rows, o)

\* the rows a Release for the order has to deal with
ReleasableIds(rows, o) ==
    {i \in RowIds(rows) : rows[i].status = "reserved" /\ rows[i].order = o}

\* a ReleaseForOrder call, the number of rows it affected and its error
ReleaseOp(o, n) == [op |-> "release", order |-> o, qty |-> n, err |-> NilErr]

\* ReleaseForOrder(order): Release, then Unbind
ReleaseForOrder(o) ==
    /\ stocks' = Release(stocks, o)
    /\ holds' = [holds EXCEPT ![o] = {}]
    /\ binding' = Unbind(binding, o)
    /\ lastOp' = ReleaseOp(o, Cardinality(ReleasableIds(stocks, o)))
    /\ UNCHANGED <<totalLimit, soldCount>>
    /\ UNCHANGED <<orderStatus, aged>>
    /\ UNCHANGED sweepVars
    /\ UNCHANGED testVars
    /\ UNCHANGED extVars

(***************************************************************************)
(* The automatic-delivery decision.  A line is what one product of the     *)
(* order has in a script pool: in the legacy flow its reserved             *)
(* placeholders, in the new flow its bound quantity and the rows already   *)
(* sold to the order; auto is the product's auto_delivery.                 *)
(***************************************************************************)
Line(flow, auto, qty, sold) == [flow |-> flow, auto |-> auto, qty |-> qty, sold |-> sold]

Lines ==
    {Line("legacy", a, q, 0) : a \in BOOLEAN, q \in 0..MaxQty}
        \cup {Line("binding", a, q, n) : a \in BOOLEAN, q \in 0..MaxQty, n \in 0..MaxQty}

\* what a line still has to get: its reserved placeholders, or its bound
\* quantity less the rows already sold
LinePending(l) ==
    IF l.flow = "legacy" THEN l.qty
    ELSE IF l.qty - l.sold > 0 THEN l.qty - l.sold ELSE 0

RECURSIVE SumLines(_, _)
\* the pending quantity of the lines, of all of them or of those of
\* auto_delivery products only
SumLines(lines, autoOnly) ==
    IF lines = <<>> THEN 0
    ELSE (IF autoOnly /\ ~Head(lines).auto THEN 0 ELSE LinePending(Head(lines)))
             + SumLines(Tail(lines), autoOnly)

\* a decision that is content with one unit of an auto_delivery product
CanAutoDeliverAny(lines) == SumLines(lines, TRUE) > 0

\* both flows are counted together: the order is delivered by itself only
\* when all that is pending is of auto_delivery products
CanAutoDeliver(lines) == SumLines(lines, TRUE) = SumLines(lines, FALSE)

AutoFrame ==
    /\ UNCHANGED coreVars
    /\ UNCHANGED <<ticketVars, cancelVars, loopVars, batchVars, vmVars, httpVars, cfgVars, odVars, failVars, smsVars, invVars, vpVars, pgVars, ceVars>>

\* the decision is taken for the order
DecideAutoDeliver ==
    /\ ~adOut.done
    /\ adOut' = [done |-> TRUE, can |-> CanAutoDeliver(adLines)]
    /\ UNCHANGED adLines
    /\ AutoFrame

(***************************************************************************)
(* ExecuteDeliveryScript step by step: the interpreter of the call, the    *)
(* code of the script running in it instruction by instruction, and the    *)
(* timer of the call.                                                      *)
(***************************************************************************)
Calls == 1..NumCalls

\* the global variable scripts write and look for
Globals == {"counter"}

NotRun == [pending |-> TRUE]

\* the call has not looked at the globals
NotSeen == [looked |-> FALSE]

\* the scripts of the calls: none, one that delivers, one whose top-level
\* code throws, one without onDeliver, one whose onDeliver throws
CallScripts ==
    {Script(FALSE, "ok", "function", "returns", Undef),
     ItemsScript(1),
     Script(TRUE, "error", "function", "returns", Undef),
     Script(TRUE, "ok", "undefined", "returns", Undef),
     Script(TRUE, "ok", "function", "throws", Undef)}

VmFrame ==
    /\ UNCHANGED coreVars
    /\ UNCHANGED <<ticketVars, cancelVars, loopVars, batchVars, autoVars, httpVars, cfgVars, odVars, failVars, smsVars, invVars, vpVars, pgVars, ceVars>>

\* an interpreter kept from one call to the next
PooledVm(vms) == 1

\* goja.New(): an interpreter of its own for the call
NewVm(vms) == Len(vms) + 1

\* a return that leaves the timer running
LeaveTimer(t) == t

\* defer timer.Stop()
StopTimer(t) == IF t = "armed" THEN "stopped" ELSE t

\* the script as it ran: its top-level code or its onDeliver cut short by
\* the interrupt
Interrupted(script, pc) ==
    IF pc = "top" THEN [script EXCEPT !.run = "timeout"]
    ELSE [script EXCEPT !.call = "timeout"]

\* the call returns what ExecuteDeliveryScript returns for the script as
\* it ran; the deferred timer.Stop() runs
ExecReturn(c, script) ==
    /\ ivPc' = [ivPc EXCEPT ![c] = "done"]
    /\ ivRet' = [ivRet EXCEPT ![c] = ExecuteDeliveryScript(script, 1)]
    /\ ivTimer' = [ivTimer EXCEPT ![c] = StopTimer(@)]
    /\ ivLeft' = [ivLeft EXCEPT ![c] = 0]

\* ExecuteDeliveryScript up to RunString: no script, or a new interpreter
\* and the timer
ExecStart(c, script) ==
    /\ ivPc[c] = "idle"
    /\ ivScript' = [ivScript EXCEPT ![c] = script]
    /\ IF ~script.text
       THEN /\ ExecReturn(c, script)
            /\ UNCHANGED <<ivVm, vmGlobals, vmIntr>>
       ELSE /\ ivVm' = [ivVm EXCEPT ![c] = NewVm(vmGlobals)]
            /\ vmGlobals' = Append(vmGlobals, {})
            /\ vmIntr' = Append(vmIntr, FALSE)
            /\ ivTimer' = [ivTimer EXCEPT ![c] = "armed"]
            /\ ivPc' = [ivPc EXCEPT ![c] = "top"]
            /\ ivLeft' = [ivLeft EXCEPT ![c] = MaxSteps]
            /\ UNCHANGED ivRet
    /\ UNCHANGED <<ivWrote, ivSeen>>
    /\ VmFrame

\* time.AfterFunc(10*time.Second, ...): vm.Interrupt on the interpreter of
\* the call
TimerFires(c) ==
    /\ ivTimer[c] = "armed"
    /\ ivTimer' = [ivTimer EXCEPT ![c] = "fired"]
    /\ vmIntr' = [vmIntr EXCEPT ![ivVm[c]] = TRUE]
    /\ UNCHANGED <<ivPc, ivScript, ivVm, ivLeft, ivWrote, ivSeen, ivRet, vmGlobals>>
    /\ VmFrame

\* the next instruction of the running code: the interpreter stops with
\* an InterruptedError when it has been told to, else the instruction
\* writes the global, looks at the globals or does something else
RunStep(c, kind) ==
    /\ ivPc[c] \in {"top", "fn"}
    /\ ivLeft[c] > 0
    /\ IF vmIntr[ivVm[c]]
       THEN /\ ExecReturn(c, Interrupted(ivScript[c], ivPc[c]))
            /\ UNCHANGED <<ivWrote, ivSeen, vmGlobals>>
       ELSE /\ ivLeft' = [ivLeft EXCEPT ![c] = @ - 1]
            /\ vmGlobals' = IF kind = "write"
                            THEN [vmGlobals EXCEPT ![ivVm[c]] = @ \cup Globals]
                            ELSE vmGlobals
            /\ ivWrote' = IF kind = "write"
                          THEN [ivWrote EXCEPT ![c] = @ \cup Globals]
                          ELSE ivWrote
            /\ ivSeen' = IF kind = "read"
                         THEN [ivSeen EXCEPT ![c] =
                                  [looked |-> TRUE, globals |-> vmGlobals[ivVm[c]]]]
                         ELSE ivSeen
            /\ UNCHANGED <<ivPc, ivRet, ivTimer>>
    /\ UNCHANGED <<ivScript, ivVm, vmIntr>>
    /\ VmFrame

\* RunString is over: its error is returned, or onDeliver is looked up and
\* called
TopEnds(c) ==
    /\ ivPc[c] = "top"
    /\ ivLeft[c] = 0
    /\ IF ivScript[c].run # "ok" \/ ivScript[c].fn # "function"
       THEN ExecReturn(c, ivScript[c])
       ELSE /\ ivPc' = [ivPc EXCEPT ![c] = "fn"]
            /\ ivLeft' = [ivLeft EXCEPT ![c] = MaxSteps]
            /\ UNCHANGED <<ivRet, ivTimer>>
    /\ UNCHANGED <<ivScript, ivVm, ivWrote, ivSeen, vmGlobals, vmIntr>>
    /\ VmFrame

\* onDeliver is over: its error or its parsed result is returned
FnEnds(c) ==
    /\ ivPc[c] = "fn"
    /\ ivLeft[c] = 0
    /\ ExecReturn(c, ivScript[c])
    /\ UNCHANGED <<ivScript, ivVm, ivWrote, ivSeen, vmGlobals, vmIntr>>
    /\ VmFrame

(***************************************************************************)
(* The HTTP capability of a script: http.get(url, headers),                *)
(* http.post(url, body, headers), http.request(method, url, body,          *)
(* headers), and doHTTPRequest behind them.  A URL is what url.Parse and   *)
(* the external-URL check make of it, a body what the preparation of the   *)
(* request body makes of it, a header map a function from the names the    *)
(* script wrote to its values.                                             *)
(***************************************************************************)
Apis == {"get", "post", "request"}

UrlKinds == {"unparsable", "loopback", "link_local", "external"}

BodyKinds == {"none", "text", "json_text", "object", "unencodable"}

\* header names as scripts write them
HeaderNames ==
    {"Host", "hOST", "Proxy-Authorization", "PROXY-AUTHORIZATION",
     "X-Token", "x-token", "Content-Type"}

HeaderVals == {Str("a"), Str("b"), Num}

NoHeaders == [k \in {} |-> Undef]

HeaderMaps ==
    UNION {[D -> HeaderVals] :
              D \in {S \in SUBSET HeaderNames : Cardinality(S) <= MaxHeaders}}

HttpCall(api, nargs, method, url, body, headers) ==
    [api |-> api, nargs |-> nargs, method |-> method, url |-> url, body |-> body,
     headers |-> headers]

NoCall == HttpCall("get", 0, "GET", "external", "none", NoHeaders)

NoRequest == [created |-> FALSE]

NoResponse == [received |-> FALSE]

\* what the network makes of a request: no response (transport failure or
\* timeout), or a response with its status, whether its body can be read,
\* whether its Content-Type contains application/json and what its body is
\* as JSON (a value, null, or not JSON)
Responses ==
    {[received |-> FALSE, failed |-> TRUE]}
        \cup {[received |-> TRUE, status |-> st, read |-> rd, json |-> js, parse |-> pa] :
                 st \in {200, 500}, rd \in {"ok", "fails"}, js \in BOOLEAN,
                 pa \in {"value", "null", "invalid"}}

\* strings.ToLower of a header name
Lower(name) ==
    CASE name \in {"Host", "hOST"} -> "host"
      [] name \in {"Proxy-Authorization", "PROXY-AUTHORIZATION"} -> "proxy-authorization"
      [] name \in {"X-Token", "x-token"} -> "x-token"
      [] name = "Content-Type" -> "content-type"
      [] name = "User-Agent" -> "user-agent"

\* strings.EqualFold
EqualFold(a, b) == Lower(a) = Lower(b)

\* the key http.Header.Set files a name under
CanonicalKey(name) ==
    CASE Lower(name) = "host" -> "Host"
      [] Lower(name) = "proxy-authorization" -> "Proxy-Authorization"
      [] Lower(name) = "x-token" -> "X-Token"
      [] Lower(name) = "content-type" -> "Content-Type"
      [] Lower(name) = "user-agent" -> "User-Agent"

\* a check that lets every destination pass
ValidateExternalURLAllowsAll(url) == TRUE

\* validateExternalURL: loopback, link-local and private destinations are
\* rejected
ValidateExternalURL(url) == url = "external"

\* an error value without its status
ErrValNoStatus(msg, status) == [error |-> msg]

\* map[string]interface{}{"error": ..., "status": ...}
ErrVal(msg, status) == [error |-> msg, status |-> status]

\* a header filter that compares the names letter by letter
IgnoredExactCase(name) == name \in {"Host", "Proxy-Authorization"}

\* the headers of the script the request does not take
Ignored(name) == EqualFold(name, "Host") \/ EqualFold(name, "Proxy-Authorization")

\* the least number of arguments of each function
MinArgs(api) == IF api = "request" THEN 2 ELSE 1

\* where the header map is among the arguments
HeadersIdx(api) == CASE api = "get" -> 1 [] api = "post" -> 2 [] api = "request" -> 3

MethodOf(call) ==
    CASE call.api = "get" -> "GET" [] call.api = "post" -> "POST"
      [] call.api = "request" -> call.method

\* the body handed to doHTTPRequest
BodyOf(call) ==
    IF call.api # "get" /\ call.nargs > HeadersIdx(call.api) - 1 THEN call.body ELSE "none"

\* extractHeaders: the entries of the map whose values are strings
ExtractHeaders(call) ==
    IF call.nargs > HeadersIdx(call.api)
    THEN [k \in {n \in DOMAIN call.headers : IsString(call.headers[n])} |->
             call.headers[k].v]
    ELSE [k \in {} |-> ""]

\* the Content-Type doHTTPRequest works out for the body
ContentTypeOf(body) ==
    CASE body = "none" -> ""
      [] body = "text" -> "text/plain"
      [] body \in {"json_text", "object", "unencodable"} -> "application/json"

\* the keys the loop over the headers sets
TakenKeys(headers) == {CanonicalKey(k) : k \in {n \in DOMAIN headers : ~Ignored(n)}}

\* for each key the name the loop sets it from last: the order of a range
\* over a map is not fixed
LastSetters(headers) ==
    {w \in [TakenKeys(headers) -> DOMAIN headers] :
        \A key \in TakenKeys(headers) : CanonicalKey(w[key]) = key /\ ~Ignored(w[key])}

DefaultContentType(headers, contentType) ==
    /\ contentType # ""
    /\ "Content-Type" \notin DOMAIN headers \/ headers["Content-Type"] = ""

\* req.Header after User-Agent, the Content-Type of the body and the loop
\* over the headers of the script
RequestHeaders(headers, contentType, w) ==
    [key \in {"User-Agent"} \cup TakenKeys(headers)
                 \cup (IF DefaultContentType(headers, contentType)
                       THEN {"Content-Type"} ELSE {}) |->
        IF key \in TakenKeys(headers) THEN headers[w[key]]
        ELSE IF key = "User-Agent" THEN "AuraLogic-ScriptDelivery/1.0"
        ELSE contentType]

Request(method, url, headers) ==
    [created |-> TRUE, sent |-> FALSE, method |-> method, url |-> url, headers |-> headers]

\* the value the script gets for a response that was read
ResultOf(resp) ==
    IF resp.json /\ resp.parse = "value"
    THEN [status |-> resp.status, body |-> "body", data |-> "data"]
    ELSE [status |-> resp.status, body |-> "body"]

HttpFrame ==
    /\ UNCHANGED coreVars
    /\ UNCHANGED <<ticketVars, cancelVars, loopVars, batchVars, autoVars, vmVars, cfgVars, odVars, failVars, smsVars, invVars, vpVars, pgVars, ceVars>>

HttpReturn(v) ==
    /\ htOut' = v
    /\ htPc' = "done"

\* http.get / http.post / http.request and doHTTPRequest up to client.Do:
\* the arguments, url.Parse, validateExternalURL, the body, NewRequest and
\* the headers
HttpEnter ==
    /\ htPc = "idle"
    /\ LET headers == ExtractHeaders(htCall)
           body == BodyOf(htCall)
       IN  IF htCall.nargs < MinArgs(htCall.api)
           THEN /\ HttpReturn(ErrVal(IF htCall.api = "request"
                                     THEN "method and URL are required"
                                     ELSE "URL is required", 0))
                /\ UNCHANGED htReq
           ELSE IF htCall.url = "unparsable"
           THEN /\ HttpReturn(ErrVal("Invalid URL", 0))
                /\ UNCHANGED htReq
           ELSE IF ~ValidateExternalURL(htCall.url)
           THEN /\ HttpReturn(ErrVal("URL is not allowed", 0))
                /\ UNCHANGED htReq
           ELSE IF body = "unencodable"
           THEN /\ HttpReturn(ErrVal("Failed to encode body", 0))
                /\ UNCHANGED htReq
           ELSE IF MethodOf(htCall) = "invalid"
           THEN /\ HttpReturn(ErrVal("Failed to create request", 0))
                /\ UNCHANGED htReq
           ELSE /\ \E w \in LastSetters(headers) :
                       htReq' = Request(MethodOf(htCall), htCall.url,
                                        RequestHeaders(headers, ContentTypeOf(body), w))
                /\ htPc' = "built"
                /\ UNCHANGED htOut
    /\ UNCHANGED <<htCall, htResp>>
    /\ HttpFrame

\* client.Do and what follows: the request goes out; no response, or a
\* response whose body is read and, if it is JSON, parsed
HttpDo(resp) ==
    /\ htPc = "built"
    /\ htReq' = [htReq EXCEPT !.sent = TRUE]
    /\ htResp' = resp
    /\ IF ~resp.received
       THEN HttpReturn(ErrVal("Request failed", 0))
       ELSE IF resp.read = "fails"
       THEN HttpReturn(ErrVal("Failed to read response", resp.status))
       ELSE HttpReturn(ResultOf(resp))
    /\ UNCHANGED htCall
    /\ HttpFrame

(***************************************************************************)
(* The config capability of a script: config.get(key, default) and the     *)
(* config argument of onDeliver.  A map of the host that is handed to the  *)
(* interpreter as a value is an object of the script that reads and        *)
(* writes the map itself.                                                  *)
(***************************************************************************)
ConfigKeys == {"k1", "k2"}

ConfigVals == {"a", "b"}

NoMap == [k \in {} |-> ""]

ConfigMaps == UNION {[D -> ConfigVals] : D \in SUBSET ConfigKeys}

\* script_config as stored with the pool: the empty string, text that is
\* not JSON, or a JSON object
StoredConfigs ==
    {[json |-> "empty", map |-> NoMap], [json |-> "invalid", map |-> NoMap]}
        \cup {[json |-> "object", map |-> f] : f \in ConfigMaps}

NoConfig == [json |-> "empty", map |-> NoMap]

NotCalled == [kind |-> "none"]

\* parseScriptConfig: a new map, filled if the text is JSON
ParseScriptConfig(stored) == IF stored.json = "object" THEN stored.map ELSE NoMap

\* a write of the script to an object that wraps a map of the host
Put(map, key, val) ==
    [k \in DOMAIN map \cup {key} |-> IF k = key THEN val ELSE map[k]]

\* the value of config.get for the arguments
ConfigValue(map, nargs, key, def) ==
    IF nargs < 1 THEN [t |-> "object", v |-> map]
    ELSE IF key \in DOMAIN map THEN Str(map[key])
    ELSE IF nargs > 1 THEN def
    ELSE Undef

ConfigFrame ==
    /\ UNCHANGED coreVars
    /\ UNCHANGED <<ticketVars, cancelVars, loopVars, batchVars, autoVars, vmVars, httpVars, odVars, failVars, smsVars, invVars, vpVars, pgVars, ceVars>>

\* ExecuteDeliveryScript up to the run of the script: registerAPIs parses
\* the configuration for config.get
CfExecute ==
    /\ cfPc = "idle"
    /\ cfLive' = ParseScriptConfig(cfStored)
    /\ cfPc' = "top"
    /\ UNCHANGED <<cfStored, cfArg, cfHeld, cfGot, cfOps>>
    /\ ConfigFrame

\* the call of onDeliver: the configuration is parsed again for its
\* argument
CfOnDeliver ==
    /\ cfPc = "top"
    /\ cfArg' = ParseScriptConfig(cfStored)
    /\ cfHeld' = cfHeld \cup {"arg"}
    /\ cfPc' = "fn"
    /\ UNCHANGED <<cfStored, cfLive, cfGot, cfOps>>
    /\ ConfigFrame

\* the script calls config.get
ConfigGet(nargs, key, def) ==
    /\ cfPc \in {"top", "fn"}
    /\ cfOps < MaxScriptOps
    /\ cfOps' = cfOps + 1
    /\ cfGot' = [kind |-> IF nargs < 1 THEN "all" ELSE "get", nargs |-> nargs,
                 key |-> key, def |-> def,
                 val |-> ConfigValue(cfLive, nargs, key, def)]
    /\ cfHeld' = IF nargs < 1 THEN cfHeld \cup {"live"} ELSE cfHeld
    /\ UNCHANGED <<cfStored, cfPc, cfLive, cfArg>>
    /\ ConfigFrame

\* the script assigns to a property of an object it holds
ScriptSets(ref, key, val) ==
    /\ cfPc \in {"top", "fn"}
    /\ cfOps < MaxScriptOps
    /\ ref \in cfHeld
    /\ cfOps' = cfOps + 1
    /\ IF ref = "live"
       THEN cfLive' = Put(cfLive, key, val) /\ UNCHANGED cfArg
       ELSE cfArg' = Put(cfArg, key, val) /\ UNCHANGED cfLive
    /\ UNCHANGED <<cfStored, cfPc, cfHeld, cfGot>>
    /\ ConfigFrame

(***************************************************************************)
(* The order capability of a script: order.get, order.getItems,            *)
(* order.getUser and the order argument of onDeliver.  An object of the    *)
(* script is a copy made for it, or the host's record itself.              *)
(***************************************************************************)
NoUser == [found |-> FALSE]

OrderItemRow(sku) == [sku |-> sku, quantity |-> 1]

\* the host's order: the order, its rows in order_items, its embedded
\* items and the user it names, if the user is found
HostOrders ==
    [order : [status : {"paid", "pending"}, has_user : BOOLEAN],
     rows : {<<>>, <<OrderItemRow("r1")>>},
     items : {<<>>, <<OrderItemRow("e1")>>},
     user : {NoUser, [found |-> TRUE, name |-> "u"]}]

NoHost ==
    [order |-> [status |-> "paid", has_user |-> FALSE], rows |-> <<>>, items |-> <<>>,
     user |-> NoUser]

\* the order handed over as it is
OrderItself(order, quantity) ==
    [of |-> "order", ref |-> "host", val |-> [status |-> order.status, quantity |-> quantity]]

\* orderToJS: a new map with the fields of the order
OrderToJS(order, quantity) ==
    [of |-> "order", ref |-> "copy", val |-> [status |-> order.status, quantity |-> quantity]]

\* order.getItems: new maps for the rows of order_items, or for the
\* embedded items if there are no rows
ItemsToJS(host) ==
    LET from == IF host.rows = <<>> THEN host.items ELSE host.rows
    IN  [of |-> "items", ref |-> "copy",
         val |-> [list |-> [i \in 1..Len(from) |->
                               [sku |-> from[i].sku, quantity |-> from[i].quantity]]]]

\* order.getUser: undefined without a user, a new map otherwise
UserToJS(host) ==
    IF ~host.order.has_user \/ ~host.user.found
    THEN [of |-> "user", ref |-> "none", val |-> Undef]
    ELSE [of |-> "user", ref |-> "copy", val |-> [name |-> host.user.name]]

\* the object after the script assigned to a property of it
Written(obj, val) ==
    CASE obj.of = "order" -> [obj EXCEPT !.val.status = val]
      [] obj.of = "items" -> [obj EXCEPT !.val.list[1].sku = val]
      [] obj.of = "user" -> [obj EXCEPT !.val.name = val]

Writable(obj) == obj.ref # "none" /\ (obj.of = "items" => Len(obj.val.list) > 0)

OrderApiFrame ==
    /\ UNCHANGED coreVars
    /\ UNCHANGED <<ticketVars, cancelVars, loopVars, batchVars, autoVars, vmVars, httpVars, cfgVars, failVars, smsVars, invVars, vpVars, pgVars, ceVars>>

\* ExecuteDeliveryScript calls onDeliver with orderToJS of the order
OdOnDeliver ==
    /\ odPc = "top"
    /\ odPc' = "fn"
    /\ odHeld' = odHeld \cup {OrderToJS(odHost.order, 1)}
    /\ UNCHANGED <<odHost, odOps>>
    /\ OrderApiFrame

OdExecute ==
    /\ odPc = "idle"
    /\ odPc' = "top"
    /\ UNCHANGED <<odHost, odHeld, odOps>>
    /\ OrderApiFrame

\* the script calls order.get, order.getItems or order.getUser and keeps
\* what it got
OrderCall(api) ==
    /\ odPc \in {"top", "fn"}
    /\ odOps < MaxScriptOps
    /\ odOps' = odOps + 1
    /\ odHeld' = odHeld \cup {CASE api = "get" -> OrderToJS(odHost.order, 1)
                               [] api = "getItems" -> ItemsToJS(odHost)
                               [] api = "getUser" -> UserToJS(odHost)}
    /\ UNCHANGED <<odHost, odPc>>
    /\ OrderApiFrame

\* the script assigns to a property of an object it holds
ScriptWrites(obj, val) ==
    /\ odPc \in {"top", "fn"}
    /\ odOps < MaxScriptOps
    /\ obj \in odHeld
    /\ Writable(obj)
    /\ odOps' = odOps + 1
    /\ odHeld' = (odHeld \ {obj}) \cup {Written(obj, val)}
    /\ IF obj.ref = "host"
       THEN odHost' = [odHost EXCEPT !.order.status = val]
       ELSE UNCHANGED odHost
    /\ UNCHANGED odPc
    /\ OrderApiFrame

(***************************************************************************)
(* The delayed SMS (SMSService): SendVerificationCode places the payload   *)
(* of a rate-limited message in the sorted set sms:delayed with the time   *)
(* as its score; ProcessDelayedSMS workers read the set, remove what they  *)
(* read and hand it to the provider unless it is too old.                  *)
(***************************************************************************)
Payloads == 1..NumPayloads

SmsWorkers == 1..NumSmsWorkers

\* 10*time.Minute
ExpiryMinutes == 10

\* Count: 50 of the workers' range query
RangeCount == 50

NoSend == [sent |-> FALSE]

Entry(member, score) == [member |-> member, score |-> score]

\* ZAdd: the member is in the set once, with the new score
ZAdd(set, member, score) ==
    {z \in set : z.member # member} \cup {Entry(member, score)}

\* ZRem: the member is taken out of the set, whatever its score
ZRem(set, member) == {z \in set : z.member # member}

\* ZRangeByScore from -inf to max: the entries by score, then by member
ZRangeByScore(set, max) ==
    LET found == {z \in set : z.score <= max}
        Before(a, b) == a.score < b.score \/ (a.score = b.score /\ a.member < b.member)
    IN  [i \in 1..Cardinality(found) |->
            CHOOSE z \in found : Cardinality({y \in found : Before(y, z)}) = i - 1]

\* a pass that takes every entry for fresh
SmsExpiredNever(now, score) == FALSE

\* now.Sub(createdAt) > 10*time.Minute
SmsExpired(now, score) == now - score > ExpiryMinutes

SmsFrame ==
    /\ UNCHANGED coreVars
    /\ UNCHANGED <<ticketVars, cancelVars, loopVars, batchVars, autoVars, vmVars, httpVars, cfgVars, odVars, failVars, invVars, vpVars, pgVars, ceVars>>

\* time goes by
SmsTick ==
    /\ smClock + TickMinutes <= MaxClock
    /\ smClock' = smClock + TickMinutes
    /\ UNCHANGED <<smDelayed, smEnq, smSent, smLast, wkPc, wkNow, wkBatch>>
    /\ SmsFrame

\* SendVerificationCode of a payload: an error if SMS is disabled or the
\* rate limit is exceeded with another exceed action, a direct send under
\* the rate limit, and with ExceedAction = delay the payload is placed in
\* the delayed set
SendVerificationCode(p, mode) ==
    /\ smEnq[p] < MaxEnq
    /\ IF mode = "delay"
       THEN /\ smDelayed' = ZAdd(smDelayed, p, smClock)
            /\ smEnq' = [smEnq EXCEPT ![p] = @ + 1]
            /\ UNCHANGED smLast
       ELSE IF mode = "direct"
       THEN /\ smLast' = [sent |-> TRUE, member |-> p, delayed |-> FALSE,
                          score |-> smClock, now |-> smClock]
            /\ UNCHANGED <<smDelayed, smEnq>>
       ELSE /\ smLast' = NoSend
            /\ UNCHANGED <<smDelayed, smEnq>>
    /\ UNCHANGED <<smClock, smSent, wkPc, wkNow, wkBatch>>
    /\ SmsFrame

\* ProcessDelayedSMS after its wait: now, and the range query
WkRead(w) ==
    /\ wkPc[w] = "wait"
    /\ wkNow' = [wkNow EXCEPT ![w] = smClock]
    /\ LET results == Take(ZRangeByScore(smDelayed, smClock), RangeCount)
       IN  /\ wkBatch' = [wkBatch EXCEPT ![w] = results]
           /\ wkPc' = [wkPc EXCEPT ![w] = IF results = <<>> THEN "wait" ELSE "loop"]
    /\ UNCHANGED <<smClock, smDelayed, smEnq, smSent, smLast>>
    /\ SmsFrame

\* the loop of the pass on its next entry: ZRem, the age test, sendDirect
WkEntry(w, outcome) ==
    /\ wkPc[w] = "loop"
    /\ LET z == Head(wkBatch[w])
       IN  /\ smDelayed' = ZRem(smDelayed, z.member)
           /\ IF SmsExpired(wkNow[w], z.score)
              THEN UNCHANGED <<smSent, smLast>>
              ELSE /\ smSent' = [smSent EXCEPT ![z.member] = @ + 1]
                   /\ smLast' = [sent |-> TRUE, member |-> z.member, delayed |-> TRUE,
                                 score |-> z.score, now |-> wkNow[w]]
    /\ outcome \in {"ok", "error"}
    /\ wkBatch' = [wkBatch EXCEPT ![w] = Tail(@)]
    /\ wkPc' = [wkPc EXCEPT ![w] = IF Len(wkBatch[w]) = 1 THEN "wait" ELSE "loop"]
    /\ UNCHANGED <<smClock, smEnq, wkNow>>
    /\ SmsFrame

(***************************************************************************)
(* The invoice of an order (OrderHandler): DownloadInvoice for the logged- *)
(* in user, GetInvoiceToken for a download token and ViewInvoiceByToken    *)
(* for the holder of a token.  The token is a key of the cache with the    *)
(* user as its value and 60 seconds to live.                               *)
(***************************************************************************)
InvUsers == 1..NumUsers

Views == 1..NumViews

InvTokens == 1..MaxTokens

InvStatuses == {"completed", "processing", "cancelled"}

NoInvoice == [rendered |-> FALSE]

\* the invoice as it goes out: for whom, by which path, and what held when
\* it was rendered
Invoice(via, user) ==
    [rendered |-> TRUE, via |-> via, user |-> user, enabled |-> invEnabled,
     status |-> invStatus, owner |-> invOwner]

\* the checks of a handler before it renders: the response they end in, or
\* 200 if they all pass
InvoiceChecks(user, disabled, notfound, forbidden, incomplete) ==
    IF ~invEnabled THEN disabled
    ELSE IF invOwner = 0 \/ invOwner # user THEN forbidden
    ELSE IF invStatus # "completed" THEN incomplete
    ELSE 200

\* a view that renders for whoever holds a token
ViewChecksTrustToken(user) == 200

\* the checks of ViewInvoiceByToken after the token
ViewChecks(user) == InvoiceChecks(user, 400, 404, 403, 400)

\* cache.Get(key)
CacheGet(keys, token) == {k \in keys : k.token = token}

InvoiceFrame ==
    /\ UNCHANGED coreVars
    /\ UNCHANGED <<ticketVars, cancelVars, loopVars, batchVars, autoVars, vmVars, httpVars, cfgVars, odVars, failVars, smsVars, vpVars, pgVars, ceVars>>

\* the configuration is changed at run time
SetInvoiceEnabled(b) ==
    /\ b # invEnabled
    /\ invEnabled' = b
    /\ UNCHANGED <<invStatus, invOwner, invDl, invPending, invNext, invLast,
                   vwPc, vwTok, vwVal, vwResp>>
    /\ InvoiceFrame

\* another flow changes the status of the order
SetInvoiceOrderStatus(st) ==
    /\ st # invStatus
    /\ invStatus' = st
    /\ UNCHANGED <<invEnabled, invOwner, invDl, invPending, invNext, invLast,
                   vwPc, vwTok, vwVal, vwResp>>
    /\ InvoiceFrame

\* a key of the cache runs out
InvExpire(token) ==
    /\ \/ CacheGet(invDl, token) # {} \/ CacheGet(invPending, token) # {}
    /\ invDl' = invDl \ CacheGet(invDl, token)
    /\ invPending' = invPending \ CacheGet(invPending, token)
    /\ UNCHANGED <<invEnabled, invStatus, invOwner, invNext, invLast,
                   vwPc, vwTok, vwVal, vwResp>>
    /\ InvoiceFrame

\* DownloadInvoice by a logged-in user
DownloadInvoice(user) ==
    /\ invLast' = IF InvoiceChecks(user, 400, 404, 403, 400) = 200
                  THEN Invoice("download", user) ELSE NoInvoice
    /\ invLast' # invLast
    /\ UNCHANGED <<invEnabled, invStatus, invOwner, invDl, invPending, invNext,
                   vwPc, vwTok, vwVal, vwResp>>
    /\ InvoiceFrame

\* GetInvoiceToken by a logged-in user: after the checks, the pending token
\* of the user if its download key is still there, else a new random token
\* stored under both keys
GetInvoiceToken(user) ==
    /\ InvoiceChecks(user, 400, 404, 403, 400) = 200
    /\ LET pending == {k \in invPending : k.user = user}
           live == {k \in pending : CacheGet(invDl, k.token) # {}}
       IN  IF live # {}
           THEN UNCHANGED <<invDl, invPending, invNext>>
           ELSE /\ invNext <= MaxTokens
                /\ invDl' = invDl \cup {[token |-> invNext, user |-> user]}
                /\ invPending' = (invPending \ pending)
                                     \cup {[token |-> invNext, user |-> user]}
                /\ invNext' = invNext + 1
    /\ invNext' # invNext
    /\ UNCHANGED <<invEnabled, invStatus, invOwner, invLast, vwPc, vwTok, vwVal, vwResp>>
    /\ InvoiceFrame

\* ViewInvoiceByToken up to cache.Get: 401 without a token or without its
\* key in the cache
ViewGet(r, token) ==
    /\ vwPc[r] = "new"
    /\ vwTok' = [vwTok EXCEPT ![r] = token]
    /\ LET found == CacheGet(invDl, token)
       IN  IF token = 0 \/ found = {}
           THEN /\ vwResp' = [vwResp EXCEPT ![r] = 401]
                /\ vwPc' = [vwPc EXCEPT ![r] = "done"]
                /\ UNCHANGED vwVal
           ELSE /\ vwVal' = [vwVal EXCEPT ![r] = (CHOOSE k \in found : TRUE).user]
                /\ vwPc' = [vwPc EXCEPT ![r] = "checked"]
                /\ UNCHANGED vwResp
    /\ UNCHANGED <<invEnabled, invStatus, invOwner, invDl, invPending, invNext, invLast>>
    /\ InvoiceFrame

\* ViewInvoiceByToken from cache.Del on: both keys are deleted, then the
\* checks, then the invoice
ViewRender(r) ==
    /\ vwPc[r] = "checked"
    /\ invDl' = invDl \ CacheGet(invDl, vwTok[r])
    /\ invPending' = {k \in invPending : k.user # vwVal[r]}
    /\ vwResp' = [vwResp EXCEPT ![r] = ViewChecks(vwVal[r])]
    /\ invLast' = IF ViewChecks(vwVal[r]) = 200 THEN Invoice("token", vwVal[r]) ELSE invLast
    /\ vwPc' = [vwPc EXCEPT ![r] = "done"]
    /\ UNCHANGED <<invEnabled, invStatus, invOwner, invNext, vwTok, vwVal>>
    /\ InvoiceFrame

(***************************************************************************)
(* GetVirtualProducts: the stock contents of an order for its owner.       *)
(***************************************************************************)
NotAsked == [asked |-> FALSE]

\* the user an order belongs to
OrderOwner(o) == o

\* GetStockByOrderNo(orderNo): the rows of the ledger with the order's
\* reference
GetStockByOrderNo(rows, o) == {i \in RowIds(rows) : rows[i].order = o}

\* the statuses for which the handler answers "not available yet"
NotAvailableYet(status) == status \in {"pending_payment", "draft", "need_resubmit"}

\* GetVirtualProducts(order_no) by a logged-in user: 403 for another
\* user's order, 400 before payment, else the stocks of the order
GetVirtualProducts(user, o) ==
    /\ vpOut' = IF OrderOwner(o) # user
                THEN [asked |-> TRUE, user |-> user, order |-> o, status |-> orderStatus[o],
                      code |-> 403, stocks |-> {}]
                ELSE IF NotAvailableYet(orderStatus[o])
                THEN [asked |-> TRUE, user |-> user, order |-> o, status |-> orderStatus[o],
                      code |-> 400, stocks |-> {}]
                ELSE [asked |-> TRUE, user |-> user, order |-> o, status |-> orderStatus[o],
                      code |-> 200, stocks |-> GetStockByOrderNo(stocks, o)]
    /\ vpOut' # vpOut
    /\ UNCHANGED coreVars
    /\ UNCHANGED <<ticketVars, cancelVars>>
    /\ UNCHANGED <<loopVars, batchVars, autoVars, vmVars, httpVars, cfgVars, odVars, failVars, smsVars, invVars, pgVars, ceVars>>

(***************************************************************************)
(* Pagination of list endpoints.  A query value is absent, text that is no *)
(* number (the empty string included) or a decimal numeral.                *)
(***************************************************************************)
Absent == [kind |-> "absent", n |-> 0]
Text == [kind |-> "text", n |-> 0]
Numeral(k) == [kind |-> "int", n |-> k]

MaxPageLimit == 100

QueryInts == ((0 - MaxQueryInt)..MaxQueryInt) \cup {MaxPageLimit - 1, MaxPageLimit, MaxPageLimit + 1}
QueryVals == {Absent, Text} \cup {Numeral(k) : k \in QueryInts}

ListHandlers == {"GetPagination", "ListOrders"}

\* c.DefaultQuery(key, defaultValue): the default only when the key is absent
DefaultQuery(v, default) == IF v.kind = "absent" THEN Numeral(default) ELSE v

\* strconv.Atoi with its error dropped: 0 for what is no numeral
Atoi(v) == IF v.kind = "int" THEN v.n ELSE 0

\* a limit clamp that lets every value through
ClampNothing(limit) == limit

\* GetPagination's limit: 20 below 1, at most 100
ClampLimit(limit) == IF limit < 1 THEN 20 ELSE IF limit > MaxPageLimit THEN MaxPageLimit ELSE limit

\* ListOrders' limit: at most 100, nothing done below 1
ClampLimitAbove(limit) == IF limit > MaxPageLimit THEN MaxPageLimit ELSE limit

\* response.GetPagination(c)
GetPagination(pageV, limitV) ==
    LET page == Atoi(DefaultQuery(pageV, 1))
        limit == Atoi(DefaultQuery(limitV, 20))
    IN  [page |-> IF page < 1 THEN 1 ELSE page, limit |-> ClampLimit(limit)]

\* the parsing at the head of OrderHandler.ListOrders
ListOrdersParse(pageV, limitV) ==
    LET page == Atoi(DefaultQuery(pageV, 1))
        limit == Atoi(DefaultQuery(limitV, 10))
    IN  [page |-> IF page < 1 THEN 1 ELSE page, limit |-> ClampLimitAbove(limit)]

Abs(a) == IF a < 0 THEN 0 - a ELSE a

\* Go's integer division and remainder: the quotient is truncated towards
\* zero and the remainder has the sign of the dividend; b is not 0
GoDiv(a, b) ==
    LET q == Abs(a) \div Abs(b)
    IN  IF (a < 0) = (b < 0) THEN q ELSE 0 - q

GoMod(a, b) == a - b * GoDiv(a, b)

NoListResponse ==
    [code |-> 0, msg |-> "", page |-> 0, limit |-> 0, total |-> 0, total_pages |-> 0,
     has_next |-> FALSE, has_prev |-> FALSE]

\* response.InternalError(c, "Query failed")
QueryFailed == [NoListResponse EXCEPT !.code = 500, !.msg = "Query failed"]

\* the handler panicked with "integer divide by zero": no pagination is
\* written, the recovery answers 500
DivideByZero == [NoListResponse EXCEPT !.code = 500, !.msg = "integer divide by zero"]

\* response.Paginated(c, items, page, limit, total); an integer division by
\* zero is a run-time panic
Paginated(page, limit, total) ==
    IF limit = 0
    THEN DivideByZero
    ELSE LET totalPages == GoDiv(total, limit) + (IF GoMod(total, limit) > 0 THEN 1 ELSE 0)
         IN  [code |-> 200, msg |-> "success", page |-> page, limit |-> limit, total |-> total,
              total_pages |-> totalPages,
              has_next |-> page < totalPages, has_prev |-> page > 1]

ListFrame ==
    /\ UNCHANGED coreVars
    /\ UNCHANGED <<ticketVars, cancelVars, loopVars, batchVars, autoVars, vmVars, httpVars, cfgVars, odVars, failVars, smsVars, invVars, vpVars, ceVars>>

\* a list request arrives and its handler parses page and limit
ListParse(via, pageV, limitV) ==
    /\ pgPc \in {"idle", "done"}
    /\ LET p == IF via = "GetPagination" THEN GetPagination(pageV, limitV)
                ELSE ListOrdersParse(pageV, limitV)
       IN  /\ pgPage' = p.page
           /\ pgLimit' = p.limit
    /\ pgVia' = via
    /\ pgPc' = "parsed"
    /\ pgTotal' = 0
    /\ pgResp' = NoListResponse
    /\ ListFrame

\* the service's list query (ListUserOrders for ListOrders): an error ends
\* the request with 500, else the count of all matching rows comes back
ListQuery(outcome, total) ==
    /\ pgPc = "parsed"
    /\ IF outcome = "err"
       THEN /\ pgPc' = "done"
            /\ pgResp' = QueryFailed
            /\ UNCHANGED pgTotal
       ELSE /\ pgPc' = "listed"
            /\ pgTotal' = total
            /\ UNCHANGED pgResp
    /\ UNCHANGED <<pgVia, pgPage, pgLimit>>
    /\ ListFrame

\* the handler's closing response.Paginated
ListRespond ==
    /\ pgPc = "listed"
    /\ pgResp' = Paginated(pgPage, pgLimit, pgTotal)
    /\ pgPc' = "done"
    /\ UNCHANGED <<pgVia, pgPage, pgLimit, pgTotal>>
    /\ ListFrame

(***************************************************************************)
(* The ConfigEditor and the page's Save and Test.  A configuration text is *)
(* one of NumJsons JSON documents, the least of them "{}", or text that is *)
(* no JSON.  The entries of the visual editor are kept as the document     *)
(* they print to.  A ref or a timer that holds nothing is the empty set.   *)
(***************************************************************************)
Jsons == 1..NumJsons
InvalidText == NumJsons + 1
ConfigTexts == Jsons \cup {InvalidText}
EmptyObject == CHOOSE j \in Jsons : \A k \in Jsons : j <= k

NoSave == [kind |-> "none", sent |-> FALSE, flushed |-> {}, used |-> {}]

\* the page's onChange, setEditForm({...editForm, script_config: v}), and
\* the editor's effect on [value] that follows a changed value
OnChange(v, skip, rawMode, rawValue, entries) ==
    IF v = ceValue \/ ~ceMounted
    THEN [value |-> v, skip |-> skip, rawMode |-> rawMode, rawValue |-> rawValue,
          entries |-> entries]
    ELSE IF skip
    THEN [value |-> v, skip |-> FALSE, rawMode |-> rawMode, rawValue |-> rawValue,
          entries |-> entries]
    ELSE IF v \in Jsons
    THEN [value |-> v, skip |-> FALSE, rawMode |-> rawMode, rawValue |-> v, entries |-> v]
    ELSE [value |-> v, skip |-> FALSE, rawMode |-> TRUE, rawValue |-> v, entries |-> entries]

\* the editor's state after OnChange
Rendered(r) ==
    /\ ceValue' = r.value
    /\ ceSkipSync' = r.skip
    /\ ceRawMode' = r.rawMode
    /\ ceRawValue' = r.rawValue
    /\ ceEntries' = r.entries

EditorFrame ==
    /\ UNCHANGED coreVars
    /\ UNCHANGED <<ticketVars, cancelVars, loopVars, batchVars, autoVars, vmVars, httpVars, cfgVars, odVars, failVars, smsVars, invVars, vpVars, pgVars>>

\* sync(next), reached from updateEntry, removeEntry, addEntry and
\* changeType: json is what next prints to
Sync(json) ==
    /\ ceMounted /\ ~ceRawMode /\ ceEdits < MaxEdits
    /\ ceEntries' = json
    /\ ceSkipSync' = TRUE
    /\ ceRawValue' = json
    /\ cePendingJson' = {json}
    /\ ceDebounce' = {json}
    /\ ceLatest' = json
    /\ ceVisual' = TRUE
    /\ ceDelivered' = 0
    /\ ceEdits' = ceEdits + 1
    /\ UNCHANGED <<ceMounted, ceRawMode, ceValue, svLast, svCount>>
    /\ EditorFrame

\* the debounce timer's callback, 300 ms after the sync that armed it
DebounceFires ==
    /\ ceDebounce # {}
    /\ \E json \in ceDebounce :
           Rendered(OnChange(json, ceSkipSync, ceRawMode, ceRawValue, ceEntries))
    /\ cePendingJson' = {}
    /\ ceDebounce' = {}
    /\ ceDelivered' = ceDelivered + 1
    /\ UNCHANGED <<ceMounted, ceLatest, ceVisual, ceEdits, svLast, svCount>>
    /\ EditorFrame

\* the "JSON editor" button
SetRawMode ==
    /\ ceMounted /\ ~ceRawMode
    /\ ceRawMode' = TRUE
    /\ UNCHANGED <<ceMounted, ceRawValue, ceEntries, cePendingJson, ceDebounce, ceSkipSync,
                   ceValue, ceLatest, ceVisual, ceDelivered, ceEdits, svLast, svCount>>
    /\ EditorFrame

\* typing in the raw editor: setRawValue(v); onChange(v)
RawChange(v) ==
    /\ ceMounted /\ ceRawMode /\ ceEdits < MaxEdits
    /\ Rendered(OnChange(v, ceSkipSync, TRUE, v, ceEntries))
    /\ ceLatest' = v
    /\ ceEdits' = ceEdits + 1
    /\ UNCHANGED <<ceMounted, cePendingJson, ceDebounce, ceVisual, ceDelivered, svLast, svCount>>
    /\ EditorFrame

\* the "visual editor" button: nothing happens while rawValue is no JSON
SetVisualMode ==
    /\ ceMounted /\ ceRawMode
    /\ ceRawValue \in Jsons
    /\ Rendered(OnChange(ceRawValue, TRUE, FALSE, ceRawValue, ceRawValue))
    /\ UNCHANGED <<ceMounted, cePendingJson, ceDebounce, ceLatest, ceVisual, ceDelivered,
                   ceEdits, svLast, svCount>>
    /\ EditorFrame

\* the editor is unmounted (the inventory's type is no longer script): the
\* cleanup clears the timer; flushRef keeps the last flush
Unmount ==
    /\ ceMounted
    /\ ceMounted' = FALSE
    /\ ceDebounce' = {}
    /\ UNCHANGED <<ceRawMode, ceRawValue, ceEntries, cePendingJson, ceSkipSync, ceValue,
                   ceLatest, ceVisual, ceDelivered, ceEdits, svLast, svCount>>
    /\ EditorFrame

\* flushRef.current(): what it returns, null being the empty set
Flushed == cePendingJson

\* handleSave and handleTest: nothing is sent for a form that is not filled
\* in; else the editor is flushed and the request carries the flushed JSON
\* or, with nothing flushed, the form's script_config
HandleSave(kind, filled) ==
    /\ svCount < MaxSaves
    /\ svCount' = svCount + 1
    /\ IF ~filled
       THEN /\ svLast' = [kind |-> kind, sent |-> FALSE, flushed |-> {}, used |-> {}]
            /\ UNCHANGED <<ceRawMode, ceRawValue, ceEntries, cePendingJson, ceDebounce,
                           ceSkipSync, ceValue, ceDelivered>>
       ELSE /\ svLast' = [kind |-> kind, sent |-> TRUE, flushed |-> Flushed,
                          used |-> IF Flushed # {} THEN Flushed ELSE {ceValue}]
            /\ ceDebounce' = {}
            /\ cePendingJson' = {}
            /\ IF cePendingJson # {}
               THEN /\ \E pending \in cePendingJson :
                           Rendered(OnChange(pending, ceSkipSync, ceRawMode, ceRawValue, ceEntries))
                    /\ ceDelivered' = ceDelivered + 1
               ELSE UNCHANGED <<ceRawMode, ceRawValue, ceEntries, ceSkipSync, ceValue, ceDelivered>>
    /\ UNCHANGED <<ceMounted, ceLatest, ceVisual, ceEdits>>
    /\ EditorFrame

(***************************************************************************)
(* Specifications.                                                         *)
(***************************************************************************)
InitTest ==
    /\ tScript \in Scripts
    /\ tQty \in 1..(MaxQty + 1)
    /\ tOut = NotRun

\* no test run
InitNoTest ==
    /\ tScript = Script(FALSE, "ok", "function", "returns", Undef)
    /\ tQty = 1
    /\ tOut = NotRun

StaticRows == [i \in 1..NumStatic |-> Row("available", "static", 0)]

\* no order yet
InitFresh(rows) ==
    /\ stocks = rows
    /\ orderStatus = [o \in Orders |-> "draft"]

\* a first order of the time when a script line got a reserved
\* placeholder row at order creation
InitLegacy(rows) ==
    /\ stocks = rows \o <<Row("reserved", "script", 1)>>
    /\ orderStatus = [o \in Orders |-> IF o = 1 THEN "pending_payment" ELSE "draft"]

InitCounters ==
    /\ soldCount = 0
    /\ holds = [o \in Orders |-> {}]
    /\ binding = [o \in Orders |-> 0]
    /\ lastOp = NoOp

\* no ticket sweep
InitNoTickets ==
    /\ tickets = [t \in Tickets |-> Ticket("closed", -1, 0, 0, FALSE, "user", 0)]
    /\ ticketHours = 0
    /\ tsPc = [s \in TicketSweepers |-> "idle"]
    /\ tsBatch = [s \in TicketSweepers |-> <<>>]
    /\ tsHours = [s \in TicketSweepers |-> 0]
    /\ tsCount = [s \in TicketSweepers |-> 0]
    /\ tsTx = [s \in TicketSweepers |-> NoTx]
    /\ tsRet = [s \in TicketSweepers |-> NoRet]

\* the order sweep in full is not looked at
InitNoCancel ==
    /\ orderExt = [o \in Orders |-> OrderExt(0, 0, 0, "none", FALSE)]
    /\ orderHours = 0
    /\ swHours = [s \in Sweepers |-> 0]
    /\ swCount = [s \in Sweepers |-> 0]
    /\ swRet = [s \in Sweepers |-> NoRet]
    /\ swTried = [s \in Sweepers |-> {}]
    /\ swFailed = [s \in Sweepers |-> {}]

\* the services are not started
InitLoops ==
    /\ lpPc = [k \in Services |-> "new"]
    /\ lpStop = [k \in Services |-> FALSE]
    /\ lpTicker = [k \in Services |-> FALSE]
    /\ lpTick = [k \in Services |-> FALSE]
    /\ lpLeft = [k \in Services |-> 0]
    /\ lpWg = [k \in Services |-> 0]
    /\ lpStopPc = [k \in Services |-> "none"]

\* the state added after the two sweeps, not looked at
\* no sweep over many entities is looked at
InitNoBatch ==
    /\ btKind = "order"
    /\ btStale = {}
    /\ btPc = "idle"
    /\ btBatch = <<>>
    /\ btCount = 0

\* no automatic-delivery decision is looked at
InitNoAuto ==
    /\ adLines = <<>>
    /\ adOut = [done |-> FALSE]

\* no call of ExecuteDeliveryScript is looked at step by step
InitNoCalls ==
    /\ ivPc = [c \in Calls |-> "idle"]
    /\ ivScript = [c \in Calls |-> Script(FALSE, "ok", "function", "returns", Undef)]
    /\ ivVm = [c \in Calls |-> 0]
    /\ ivLeft = [c \in Calls |-> 0]
    /\ ivTimer = [c \in Calls |-> "none"]
    /\ ivWrote = [c \in Calls |-> {}]
    /\ ivSeen = [c \in Calls |-> NotSeen]
    /\ ivRet = [c \in Calls |-> NotRun]
    /\ vmGlobals = <<>>
    /\ vmIntr = <<>>

\* no HTTP call of a script is looked at
InitNoHttp ==
    /\ htCall = NoCall
    /\ htPc = "idle"
    /\ htReq = NoRequest
    /\ htResp = NoResponse
    /\ htOut = NotRun

\* no configuration of a script is looked at
InitNoConfig ==
    /\ cfStored = NoConfig
    /\ cfPc = "idle"
    /\ cfLive = NoMap
    /\ cfArg = NoMap
    /\ cfHeld = {}
    /\ cfGot = NotCalled
    /\ cfOps = 0

\* no order capability of a script is looked at
InitNoOrderApi ==
    /\ odHost = NoHost
    /\ odPc = "idle"
    /\ odHeld = {}
    /\ odOps = 0

\* no cancellation fails for good
InitNoFailing ==
    /\ btFailing = {}

\* no delayed SMS is looked at
InitNoSms ==
    /\ smClock = 0
    /\ smDelayed = {}
    /\ smEnq = [p \in Payloads |-> 0]
    /\ smSent = [p \in Payloads |-> 0]
    /\ smLast = NoSend
    /\ wkPc = [w \in SmsWorkers |-> "off"]
    /\ wkNow = [w \in SmsWorkers |-> 0]
    /\ wkBatch = [w \in SmsWorkers |-> <<>>]

\* no invoice is looked at
InitNoInvoice ==
    /\ invEnabled = FALSE
    /\ invStatus = "completed"
    /\ invOwner = 0
    /\ invDl = {}
    /\ invPending = {}
    /\ invNext = 1
    /\ invLast = NoInvoice
    /\ vwPc = [r \in Views |-> "off"]
    /\ vwTok = [r \in Views |-> 0]
    /\ vwVal = [r \in Views |-> 0]
    /\ vwResp = [r \in Views |-> 0]

\* no GetVirtualProducts request is looked at
InitNoVirtual ==
    /\ vpOut = NotAsked

\* no list request is looked at
InitNoList ==
    /\ pgPc = "idle" /\ pgVia = "GetPagination"
    /\ pgPage = 1 /\ pgLimit = 1 /\ pgTotal = 0
    /\ pgResp = NoListResponse

\* no ConfigEditor is looked at
InitNoEditor ==
    /\ ceMounted = FALSE /\ ceRawMode = FALSE /\ ceSkipSync = FALSE
    /\ ceRawValue = EmptyObject /\ ceEntries = EmptyObject /\ ceValue = EmptyObject
    /\ cePendingJson = {} /\ ceDebounce = {}
    /\ ceLatest = EmptyObject /\ ceVisual = FALSE /\ ceDelivered = 0 /\ ceEdits = 0
    /\ svLast = NoSave /\ svCount = 0

InitMore == InitLoops /\ InitNoBatch /\ InitNoAuto /\ InitNoCalls /\ InitNoHttp /\ InitNoConfig /\ InitNoOrderApi /\ InitNoFailing /\ InitNoSms /\ InitNoInvoice /\ InitNoVirtual /\ InitNoList /\ InitNoEditor

\* what the ledger, order and script specifications leave alone
InitExt == InitNoTickets /\ InitNoCancel /\ InitMore

InitSweep ==
    /\ swPc = [s \in Sweepers |-> "idle"]
    /\ swBatch = [s \in Sweepers |-> <<>>]
    /\ cancelWins = [o \in Orders |-> 0]
    /\ cancelSkips = [o \in Orders |-> 0]
    /\ releaseRuns = [o \in Orders |-> 0]

\* every order counts as stale as soon as it is created: the sweep may
\* take a pending_payment order at any time
AllAged == aged = [o \in Orders |-> TRUE]

\* The static pool: allocation, payment, delivery, the administrator's
\* actions and one run of the sweep at a time.
Init ==
    /\ InitNoTest /\ InitCounters /\ InitSweep /\ AllAged
    /\ InitExt
    /\ totalLimit = 0
    /\ InitFresh(StaticRows) \/ InitLegacy(StaticRows)

Next ==
    \/ \E o \in Orders, qs \in 1..MaxQty : CreateOrder(o, qs, 0)
    \/ \E o \in Orders : MarkAsPaid(o)
    \/ \E o \in Orders : DeliverStatic(o)
    \/ AdminCreateStock
    \/ \E i \in 1..MaxRows : AdminReserve(i)
    \/ \E i \in 1..MaxRows : AdminRelease(i)
    \/ \E i \in 1..MaxRows : EditPageDelete(i)
    \/ \E i \in 1..MaxRows : StockPageDelete(i)
    \/ SweepQuery(1)
    \/ CancelUpdate(1)
    \/ CancelRelease(1)

Spec == Init /\ [][Next]_vars

\* The script pool: binding, payment, script delivery and one run of the
\* sweep at a time.
InitDeliver ==
    /\ InitNoTest /\ InitCounters /\ InitSweep /\ AllAged
    /\ InitExt
    /\ totalLimit \in {0, MaxLimit}
    /\ InitFresh(<<>>) \/ InitLegacy(<<>>)

NextDeliver ==
    \/ \E o \in Orders, qj \in 1..MaxQty : CreateOrder(o, 0, qj)
    \/ \E o \in Orders : MarkAsPaid(o)
    \/ \E o \in Orders : DeliverScript(o)
    \/ SweepQuery(1)
    \/ CancelUpdate(1)
    \/ CancelRelease(1)

SpecDeliver == InitDeliver /\ [][NextDeliver]_vars

\* The order sweep: orders created with one line of each kind (the first
\* also with a legacy placeholder), several runs of the sweep and payment.
InitOrders ==
    /\ InitNoTest /\ InitSweep
    /\ InitExt
    /\ totalLimit = 0
    /\ soldCount = 0
    /\ stocks = [i \in 1..NumOrders |-> Row("reserved", "static", i)]
                    \o <<Row("reserved", "script", 1)>>
    /\ holds = [o \in Orders |-> {o}]
    /\ binding = [o \in Orders |-> 1]
    /\ orderStatus = [o \in Orders |-> "pending_payment"]
    /\ aged = [o \in Orders |-> FALSE]
    /\ lastOp = NoOp

NextSweep ==
    \/ \E o \in Orders : Age(o)
    \/ \E o \in Orders : MarkAsPaid(o)
    \/ \E s \in Sweepers : SweepQuery(s)
    \/ \E s \in Sweepers : CancelUpdate(s)
    \/ \E s \in Sweepers : CancelRelease(s)

SpecSweep == InitOrders /\ [][NextSweep]_vars

\* one call of ExecuteDeliveryScript on a synthetic order (the dry-run test)
RunScript ==
    /\ tOut = NotRun
    /\ tOut' = ExecuteDeliveryScript(tScript, tQty)
    /\ UNCHANGED <<tScript, tQty, lastOp>>
    /\ UNCHANGED extVars
    /\ UNCHANGED ledgerVars
    /\ UNCHANGED orderVars
    /\ UNCHANGED sweepVars

InitScript ==
    /\ InitTest /\ InitCounters /\ InitSweep /\ AllAged
    /\ InitExt
    /\ totalLimit = 0
    /\ InitFresh(<<>>)

NextScript == RunScript

SpecScript == InitScript /\ [][NextScript]_vars

\* what the ticket specifications leave alone
InitCore ==
    /\ InitNoTest /\ InitCounters /\ InitSweep /\ AllAged
    /\ totalLimit = 0
    /\ InitFresh(<<>>)

TxOutcomes == {"ok", "error"}

CommitOutcomes == {"ok", "error", "commit_error"}

\* The ticket sweep: several runs of closeInactiveTickets against tickets
\* that age, get replies and are worked on or closed by other flows.
InitTickets ==
    /\ InitCore
    /\ InitNoCancel
    /\ InitMore
    /\ tickets \in [Tickets -> {Ticket("open", a, 0, u, FALSE, "user", 0) :
                                   a \in {-1, 0}, u \in {0, 1}}]
    /\ ticketHours = 1
    /\ tsPc = [s \in TicketSweepers |-> "idle"]
    /\ tsBatch = [s \in TicketSweepers |-> <<>>]
    /\ tsHours = [s \in TicketSweepers |-> 0]
    /\ tsCount = [s \in TicketSweepers |-> 0]
    /\ tsTx = [s \in TicketSweepers |-> NoTx]
    /\ tsRet = [s \in TicketSweepers |-> NoRet]

NextTicket ==
    \/ \E t \in Tickets : TkPass(t)
    \/ \E t \in Tickets : TkReply(t)
    \/ \E t \in Tickets, st \in ActiveStatuses \cup {"closed"} : TkSetStatus(t, st)
    \/ \E s \in TicketSweepers : TkQuery(s)
    \/ \E s \in TicketSweepers, outcome \in TxOutcomes : TkUpdate(s, outcome)
    \/ \E s \in TicketSweepers, outcome \in TxOutcomes : TkCreate(s, outcome)
    \/ \E s \in TicketSweepers, outcome \in CommitOutcomes : TkCounters(s, outcome)

SpecTicket == InitTickets /\ [][NextTicket]_vars

\* The ticket sweep with the configured hours negative, zero or positive
\* and changed at run time, over tickets of every status with and without
\* a last message.
TicketHoursVals == (-1)..1

InitTicketHours ==
    /\ InitCore
    /\ InitNoCancel
    /\ InitMore
    /\ tickets \in [Tickets -> {Ticket(st, a, 0, 0, FALSE, "user", 0) :
                                   st \in {"open", "closed"}, a \in {-1, MaxHours}}]
    /\ ticketHours \in TicketHoursVals
    /\ tsPc = [s \in TicketSweepers |-> "idle"]
    /\ tsBatch = [s \in TicketSweepers |-> <<>>]
    /\ tsHours = [s \in TicketSweepers |-> 0]
    /\ tsCount = [s \in TicketSweepers |-> 0]
    /\ tsTx = [s \in TicketSweepers |-> NoTx]
    /\ tsRet = [s \in TicketSweepers |-> NoRet]

NextTicketHours ==
    \/ \E t \in Tickets : TkReply(t)
    \/ \E t \in Tickets, st \in {"resolved", "closed"} : TkSetStatus(t, st)
    \/ \E h \in TicketHoursVals : SetTicketHours(h)
    \/ \E s \in TicketSweepers : TkQuery(s)
    \/ \E s \in TicketSweepers, outcome \in TxOutcomes : TkUpdate(s, outcome)
    \/ \E s \in TicketSweepers, outcome \in TxOutcomes : TkCreate(s, outcome)
    \/ \E s \in TicketSweepers, outcome \in CommitOutcomes : TkCounters(s, outcome)

SpecTicketHours == InitTicketHours /\ [][NextTicketHours]_vars

\* The order sweep in full: orders that hold a reserved row of the static
\* pool (the first also a legacy placeholder), a binding and, as drawn,
\* physical inventory and a promo code; the other flows, time, and the
\* runs of the sweep with their failures.
InitCancel ==
    /\ InitNoTest /\ InitSweep /\ InitNoTickets
    /\ InitMore
    /\ totalLimit = 0
    /\ soldCount = 0
    /\ stocks = [i \in 1..NumOrders |-> Row("reserved", "static", i)]
                    \o <<Row("reserved", "script", 1)>>
    /\ holds = [o \in Orders |-> {o}]
    /\ binding = [o \in Orders |-> 1]
    /\ orderStatus \in [Orders -> {"draft", "pending_payment"}]
    /\ aged = [o \in Orders |-> FALSE]
    /\ lastOp = NoOp
    /\ orderExt \in [Orders -> {OrderExt(0, 0, i, p, TRUE) :
                                    i \in {0, 1}, p \in {"none", "reserved"}}]
    /\ orderHours = 1
    /\ swHours = [s \in Sweepers |-> 0]
    /\ swCount = [s \in Sweepers |-> 0]
    /\ swRet = [s \in Sweepers |-> NoRet]
    /\ swTried = [s \in Sweepers |-> {}]
    /\ swFailed = [s \in Sweepers |-> {}]

NextCancel ==
    \/ \E o \in Orders : OrderPass(o)
    \/ \E o \in Orders, st \in OrderStatuses : OtherFlow(o, st)
    \/ CoQuery(1)
    \/ \E outcome \in TxOutcomes : CoUpdate(1, outcome)
    \/ \E failing \in SUBSET {"inventory", "virtual", "promo", "serial"} : CoRelease(1, failing)

SpecCancel == InitCancel /\ [][NextCancel]_vars

\* Start, Stop and the loop of each service, with sweeps of up to
\* MaxBatch entities.
InitLoop ==
    /\ InitCore /\ InitNoTickets /\ InitNoCancel
    /\ InitLoops /\ InitNoBatch /\ InitNoAuto /\ InitNoCalls /\ InitNoHttp /\ InitNoConfig /\ InitNoOrderApi /\ InitNoFailing /\ InitNoSms /\ InitNoInvoice /\ InitNoVirtual /\ InitNoList /\ InitNoEditor

NextLoop ==
    \/ \E k \in Services : Start(k)
    \/ \E k \in Services : StopSignal(k)
    \/ \E k \in Services : StopReturn(k)
    \/ \E k \in Services, n \in 0..MaxBatch : LoopFirst(k, n)
    \/ \E k \in Services : LoopSweep(k)
    \/ \E k \in Services : LoopSelect(k)
    \/ \E k \in Services : TickerFires(k)
    \/ \E k \in Services : SelectStop(k)
    \/ \E k \in Services, n \in 0..MaxBatch : SelectTick(k, n)

SpecLoop == InitLoop /\ [][NextLoop]_vars

\* The runs of the two sweeps over entities that are all stale: one run
\* of each sweep at a time, each call ending well or in an error.
InitRuns ==
    /\ InitNoTest /\ InitSweep /\ InitMore
    /\ totalLimit = 0
    /\ soldCount = 0
    /\ stocks = [i \in 1..NumOrders |-> Row("reserved", "static", i)]
    /\ holds = [o \in Orders |-> {o}]
    /\ binding = [o \in Orders |-> 0]
    /\ orderStatus = [o \in Orders |-> "pending_payment"]
    /\ aged = [o \in Orders |-> FALSE]
    /\ lastOp = NoOp
    /\ orderExt = [o \in Orders |->
                      OrderExt(DefaultAutoCancelHours + 1, 0, 1, "reserved", TRUE)]
    /\ orderHours \in 0..1
    /\ swHours = [s \in Sweepers |-> 0]
    /\ swCount = [s \in Sweepers |-> 0]
    /\ swRet = [s \in Sweepers |-> NoRet]
    /\ swTried = [s \in Sweepers |-> {}]
    /\ swFailed = [s \in Sweepers |-> {}]
    /\ tickets = [t \in Tickets |-> Ticket("open", MaxHours + 1, 0, 0, FALSE, "user", 0)]
    /\ ticketHours = 1
    /\ tsPc = [s \in TicketSweepers |-> "idle"]
    /\ tsBatch = [s \in TicketSweepers |-> <<>>]
    /\ tsHours = [s \in TicketSweepers |-> 0]
    /\ tsCount = [s \in TicketSweepers |-> 0]
    /\ tsTx = [s \in TicketSweepers |-> NoTx]
    /\ tsRet = [s \in TicketSweepers |-> NoRet]

NextRuns ==
    \/ CoQuery(1)
    \/ \E outcome \in TxOutcomes : CoUpdate(1, outcome)
    \/ CoRelease(1, {})
    \/ TkQuery(1)
    \/ \E outcome \in TxOutcomes : TkUpdate(1, outcome)
    \/ \E outcome \in TxOutcomes : TkCreate(1, outcome)
    \/ \E outcome \in CommitOutcomes : TkCounters(1, outcome)

SpecRuns == InitRuns /\ [][NextRuns]_vars

\* One sweep over none, one, just under, exactly and more than Limit(100)
\* stale entities.
StaleCounts == {0, 1, QueryLimit - 1, QueryLimit, MaxStale - 1, MaxStale}

InitBatch ==
    /\ InitCore /\ InitNoTickets /\ InitNoCancel /\ InitLoops /\ InitNoAuto /\ InitNoCalls /\ InitNoHttp /\ InitNoConfig /\ InitNoOrderApi /\ InitNoFailing /\ InitNoSms /\ InitNoInvoice /\ InitNoVirtual /\ InitNoList /\ InitNoEditor
    /\ btKind \in Services
    /\ \E n \in StaleCounts : btStale = 1..n
    /\ btPc = "idle"
    /\ btBatch = <<>>
    /\ btCount = 0

NextBatch ==
    \/ BtQuery
    \/ BtCall("nil")

SpecBatch == InitBatch /\ [][NextBatch]_vars

\* The order sweep ticking for ever over MaxStale stale orders, none, one
\* or QueryLimit of which fail with an error on every tick: the loop is not
\* stopped, so the ticker fires again and again and every tick runs to its
\* end.
FailingSets == {{}, {1}, 1..QueryLimit, (MaxStale - QueryLimit + 1)..MaxStale}

InitLive ==
    /\ InitCore /\ InitNoTickets /\ InitNoCancel /\ InitLoops /\ InitNoAuto /\ InitNoCalls /\ InitNoHttp /\ InitNoConfig /\ InitNoOrderApi /\ InitNoSms /\ InitNoInvoice /\ InitNoVirtual /\ InitNoList /\ InitNoEditor
    /\ btKind = "order"
    /\ btStale = StaleIds
    /\ btFailing \in FailingSets
    /\ btPc = "idle"
    /\ btBatch = <<>>
    /\ btCount = 0

NextLive ==
    \/ BtQuery
    \/ CancelNext

SpecLive == InitLive /\ [][NextLive]_vars /\ WF_vars(BtQuery) /\ WF_vars(CancelNext)

\* The two sweeps while the configured hours are changed at run time: the
\* first order and the first ticket are MaxHours old, the others older than
\* every threshold.
ConfigHours == (-1)..MaxHours

InitHours ==
    /\ InitNoTest /\ InitSweep /\ InitMore
    /\ totalLimit = 0
    /\ soldCount = 0
    /\ stocks = [i \in 1..NumOrders |-> Row("reserved", "static", i)]
    /\ holds = [o \in Orders |-> {o}]
    /\ binding = [o \in Orders |-> 0]
    /\ orderStatus = [o \in Orders |-> "pending_payment"]
    /\ aged = [o \in Orders |-> FALSE]
    /\ lastOp = NoOp
    /\ orderExt = [o \in Orders |->
                      OrderExt(IF o = 1 THEN MaxHours ELSE DefaultAutoCancelHours + 1,
                               0, 0, "none", FALSE)]
    /\ orderHours \in ConfigHours
    /\ swHours = [s \in Sweepers |-> 0]
    /\ swCount = [s \in Sweepers |-> 0]
    /\ swRet = [s \in Sweepers |-> NoRet]
    /\ swTried = [s \in Sweepers |-> {}]
    /\ swFailed = [s \in Sweepers |-> {}]
    /\ tickets = [t \in Tickets |->
                     Ticket("open", IF t = 1 THEN MaxHours ELSE MaxHours + 1,
                            0, 0, FALSE, "user", 0)]
    /\ ticketHours \in ConfigHours
    /\ tsPc = [s \in TicketSweepers |-> "idle"]
    /\ tsBatch = [s \in TicketSweepers |-> <<>>]
    /\ tsHours = [s \in TicketSweepers |-> 0]
    /\ tsCount = [s \in TicketSweepers |-> 0]
    /\ tsTx = [s \in TicketSweepers |-> NoTx]
    /\ tsRet = [s \in TicketSweepers |-> NoRet]

NextHours ==
    \/ \E h \in ConfigHours : SetOrderHours(h)
    \/ CoQuery(1)
    \/ CoUpdate(1, "ok")
    \/ CoRelease(1, {})
    \/ \E h \in ConfigHours : SetTicketHours(h)
    \/ TkQuery(1)
    \/ TkUpdate(1, "ok")
    \/ TkCreate(1, "ok")
    \/ TkCounters(1, "ok")

SpecHours == InitHours /\ [][NextHours]_vars

\* The automatic-delivery decision over every order of up to MaxLines
\* lines.
InitAuto ==
    /\ InitCore /\ InitNoTickets /\ InitNoCancel /\ InitLoops /\ InitNoBatch /\ InitNoCalls /\ InitNoHttp /\ InitNoConfig /\ InitNoOrderApi /\ InitNoFailing /\ InitNoSms /\ InitNoInvoice /\ InitNoVirtual /\ InitNoList /\ InitNoEditor
    /\ \E n \in 0..MaxLines : adLines \in [1..n -> Lines]
    /\ adOut = [done |-> FALSE]

NextAuto == DecideAutoDeliver

SpecAuto == InitAuto /\ [][NextAuto]_vars

\* Orders of both pools, released at any time: either no order yet, or a
\* first order that holds a static row and, from the time of placeholders,
\* a reserved row of the script pool.
InitRelease ==
    /\ InitNoTest /\ InitSweep /\ AllAged
    /\ InitExt
    /\ totalLimit = 0
    /\ soldCount = 0
    /\ lastOp = NoOp
    /\ \/ /\ InitFresh(StaticRows)
          /\ holds = [o \in Orders |-> {}]
          /\ binding = [o \in Orders |-> 0]
       \/ /\ InitLegacy([StaticRows EXCEPT ![1] = Row("reserved", "static", 1)])
          /\ holds = [o \in Orders |-> IF o = 1 THEN {1} ELSE {}]
          /\ binding = [o \in Orders |-> 0]

NextRelease ==
    \/ \E o \in Orders, qs \in 0..MaxQty, qj \in 0..1 : CreateOrder(o, qs, qj)
    \/ \E o \in Orders : MarkAsPaid(o)
    \/ \E o \in Orders : DeliverStatic(o)
    \/ \E o \in Orders, k \in 1..MaxItems : DeliverScriptWith(o, ItemsScript(k))
    \/ \E o \in Orders : ReleaseForOrder(o)

SpecRelease == InitRelease /\ [][NextRelease]_vars

\* Calls of ExecuteDeliveryScript, one after the other and at the same
\* time, each with its timer.
InitCalls ==
    /\ InitCore /\ InitNoTickets /\ InitNoCancel /\ InitLoops /\ InitNoBatch /\ InitNoAuto /\ InitNoHttp /\ InitNoConfig /\ InitNoOrderApi /\ InitNoFailing /\ InitNoSms /\ InitNoInvoice /\ InitNoVirtual /\ InitNoList /\ InitNoEditor
    /\ InitNoCalls

NextCalls ==
    \/ \E c \in Calls, script \in CallScripts : ExecStart(c, script)
    \/ \E c \in Calls : TimerFires(c)
    \/ \E c \in Calls, kind \in {"write", "read", "other"} : RunStep(c, kind)
    \/ \E c \in Calls : TopEnds(c)
    \/ \E c \in Calls : FnEnds(c)

SpecCalls == InitCalls /\ [][NextCalls]_vars

\* One HTTP call of a script: every function with every number of
\* arguments, kind of URL, method and body and a header or none, and
\* http.post to an external URL with every header map of up to MaxHeaders
\* entries.
HttpCalls ==
    {HttpCall(api, n, me, url, body, h) :
        api \in Apis, n \in 0..4, me \in {"GET", "invalid"}, url \in UrlKinds,
        body \in BodyKinds, h \in {NoHeaders}}
        \cup {HttpCall("post", 3, "POST", "external", body, h) :
                  body \in {"none", "text"}, h \in HeaderMaps}

InitHttp ==
    /\ InitCore /\ InitNoTickets /\ InitNoCancel /\ InitLoops /\ InitNoBatch /\ InitNoAuto /\ InitNoCalls /\ InitNoConfig /\ InitNoOrderApi /\ InitNoFailing /\ InitNoSms /\ InitNoInvoice /\ InitNoVirtual /\ InitNoList /\ InitNoEditor
    /\ htCall \in HttpCalls
    /\ htPc = "idle"
    /\ htReq = NoRequest
    /\ htResp = NoResponse
    /\ htOut = NotRun

NextHttp ==
    \/ HttpEnter
    \/ \E resp \in Responses : HttpDo(resp)

SpecHttp == InitHttp /\ [][NextHttp]_vars

\* One invocation of a script with every stored configuration: the script
\* calls config.get and assigns to the objects it got, up to MaxScriptOps
\* times.
InitConfig ==
    /\ InitCore /\ InitNoTickets /\ InitNoCancel /\ InitLoops /\ InitNoBatch /\ InitNoAuto /\ InitNoCalls /\ InitNoHttp /\ InitNoOrderApi /\ InitNoFailing /\ InitNoSms /\ InitNoInvoice /\ InitNoVirtual /\ InitNoList /\ InitNoEditor
    /\ cfStored \in StoredConfigs
    /\ cfPc = "idle"
    /\ cfLive = NoMap
    /\ cfArg = NoMap
    /\ cfHeld = {}
    /\ cfGot = NotCalled
    /\ cfOps = 0

NextConfig ==
    \/ CfExecute
    \/ CfOnDeliver
    \/ \E nargs \in 0..2, key \in ConfigKeys, def \in {Str("d")} :
           ConfigGet(nargs, key, def)
    \/ \E ref \in {"live", "arg"}, key \in ConfigKeys, val \in ConfigVals :
           ScriptSets(ref, key, val)

SpecConfig == InitConfig /\ [][NextConfig]_vars

\* One invocation of a script for every order of the host: the script
\* calls the order capability and assigns to the objects it got, up to
\* MaxScriptOps times.
InitOrderApi ==
    /\ InitCore /\ InitNoTickets /\ InitNoCancel /\ InitLoops /\ InitNoBatch /\ InitNoAuto /\ InitNoCalls /\ InitNoHttp /\ InitNoConfig /\ InitNoFailing /\ InitNoSms /\ InitNoInvoice /\ InitNoVirtual /\ InitNoList /\ InitNoEditor
    /\ odHost \in HostOrders
    /\ odPc = "idle"
    /\ odHeld = {}
    /\ odOps = 0

NextOrderApi ==
    \/ OdExecute
    \/ OdOnDeliver
    \/ \E api \in {"get", "getItems", "getUser"} : OrderCall(api)
    \/ \E obj \in odHeld, val \in {"x"} : ScriptWrites(obj, val)

SpecOrderApi == InitOrderApi /\ [][NextOrderApi]_vars

\* The delayed SMS with NumSmsWorkers workers of ProcessDelayedSMS (one
\* per instance of the service on the same Redis) and time going by.
InitSms ==
    /\ InitCore /\ InitNoTickets /\ InitNoCancel /\ InitLoops /\ InitNoBatch /\ InitNoAuto /\ InitNoCalls /\ InitNoHttp /\ InitNoConfig /\ InitNoOrderApi /\ InitNoFailing /\ InitNoInvoice /\ InitNoVirtual /\ InitNoList /\ InitNoEditor
    /\ smClock = 0
    /\ smDelayed = {}
    /\ smEnq = [p \in Payloads |-> 0]
    /\ smSent = [p \in Payloads |-> 0]
    /\ smLast = NoSend
    /\ wkPc = [w \in SmsWorkers |-> "wait"]
    /\ wkNow = [w \in SmsWorkers |-> 0]
    /\ wkBatch = [w \in SmsWorkers |-> <<>>]

NextSms ==
    \/ SmsTick
    \/ \E p \in Payloads, mode \in {"disabled", "direct", "delay", "cancel"} :
           SendVerificationCode(p, mode)
    \/ \E w \in SmsWorkers : WkRead(w)
    \/ \E w \in SmsWorkers, outcome \in {"ok", "error"} : WkEntry(w, outcome)

SpecSms == InitSms /\ [][NextSms]_vars

\* The invoice of one order, owned by the first user or by nobody, with
\* NumViews requests that present a token, the status of the order and the
\* configuration changing at any time.
InitInvoice ==
    /\ InitCore /\ InitNoTickets /\ InitNoCancel /\ InitLoops /\ InitNoBatch /\ InitNoAuto /\ InitNoCalls /\ InitNoHttp /\ InitNoConfig /\ InitNoOrderApi /\ InitNoFailing /\ InitNoSms /\ InitNoVirtual /\ InitNoList /\ InitNoEditor
    /\ invEnabled \in BOOLEAN
    /\ invStatus \in InvStatuses
    /\ invOwner \in 0..1
    /\ invDl = {}
    /\ invPending = {}
    /\ invNext = 1
    /\ invLast = NoInvoice
    /\ vwPc = [r \in Views |-> "new"]
    /\ vwTok = [r \in Views |-> 0]
    /\ vwVal = [r \in Views |-> 0]
    /\ vwResp = [r \in Views |-> 0]

NextInvoice ==
    \/ \E b \in BOOLEAN : SetInvoiceEnabled(b)
    \/ \E st \in InvStatuses : SetInvoiceOrderStatus(st)
    \/ \E t \in InvTokens : InvExpire(t)
    \/ \E u \in InvUsers : DownloadInvoice(u)
    \/ \E u \in InvUsers : GetInvoiceToken(u)
    \/ \E r \in Views, t \in 0..MaxTokens : ViewGet(r, t)
    \/ \E r \in Views : ViewRender(r)

SpecInvoice == InitInvoice /\ [][NextInvoice]_vars

\* Orders on the static pool from draft to payment, delivery and the
\* sweep's cancellation, with GetVirtualProducts asked by every user for
\* every order at any time.
InitVirtual ==
    /\ InitNoTest /\ InitCounters /\ InitSweep /\ AllAged /\ InitNoTickets /\ InitNoCancel /\ InitLoops /\ InitNoBatch /\ InitNoAuto /\ InitNoCalls /\ InitNoHttp /\ InitNoConfig /\ InitNoOrderApi /\ InitNoFailing /\ InitNoSms /\ InitNoInvoice /\ InitNoList /\ InitNoEditor
    /\ totalLimit = 0
    /\ InitFresh(StaticRows)
    /\ vpOut = NotAsked

NextVirtual ==
    \/ \E o \in Orders, qs \in 1..MaxQty : CreateOrder(o, qs, 0)
    \/ \E o \in Orders : MarkAsPaid(o)
    \/ \E o \in Orders : DeliverStatic(o)
    \/ SweepQuery(1)
    \/ CancelUpdate(1)
    \/ CancelRelease(1)
    \/ \E u \in InvUsers, o \in Orders : GetVirtualProducts(u, o)

SpecVirtual == InitVirtual /\ [][NextVirtual]_vars

\* List requests of both kinds of handler, one after another, with every
\* page and limit query value and every count of rows.
InitList ==
    /\ InitCore /\ InitNoTickets /\ InitNoCancel /\ InitLoops /\ InitNoBatch /\ InitNoAuto /\ InitNoCalls /\ InitNoHttp /\ InitNoConfig /\ InitNoOrderApi /\ InitNoFailing /\ InitNoSms /\ InitNoInvoice /\ InitNoVirtual /\ InitNoEditor
    /\ InitNoList

NextList ==
    \/ \E via \in ListHandlers, pageV \in QueryVals, limitV \in QueryVals :
           ListParse(via, pageV, limitV)
    \/ \E outcome \in {"err", "nil"}, total \in 0..MaxTotal : ListQuery(outcome, total)
    \/ ListRespond

SpecList == InitList /\ [][NextList]_vars

\* A mounted ConfigEditor showing any stored configuration, edited in both
\* of its modes, with Save and Test pressed at any moment.  An armed timer
\* fires unless it is cleared first.
InitEditor ==
    /\ InitCore /\ InitNoTickets /\ InitNoCancel
    /\ InitLoops /\ InitNoBatch /\ InitNoAuto /\ InitNoCalls /\ InitNoHttp /\ InitNoConfig /\ InitNoOrderApi /\ InitNoFailing /\ InitNoSms /\ InitNoInvoice /\ InitNoVirtual /\ InitNoList
    /\ ceMounted = TRUE
    /\ ceValue \in ConfigTexts
    /\ ceRawMode = (ceValue \notin Jsons)
    /\ ceRawValue = ceValue
    /\ ceEntries = IF ceValue \in Jsons THEN ceValue ELSE EmptyObject
    /\ ceSkipSync = FALSE
    /\ cePendingJson = {} /\ ceDebounce = {}
    /\ ceLatest = ceValue /\ ceVisual = FALSE /\ ceDelivered = 0 /\ ceEdits = 0
    /\ svLast = NoSave /\ svCount = 0

NextEditor ==
    \/ \E json \in Jsons : Sync(json)
    \/ DebounceFires
    \/ SetRawMode
    \/ \E v \in ConfigTexts : RawChange(v)
    \/ SetVisualMode
    \/ Unmount
    \/ \E kind \in {"save", "test"}, filled \in BOOLEAN : HandleSave(kind, filled)

SpecEditor == InitEditor /\ [][NextEditor]_vars /\ WF_vars(DebounceFires)

(***************************************************************************)
(* Claims about the validation of a script's return value.                 *)
(***************************************************************************)
\* the run got as far as parseDeliveryResult with an object
ParsedObject ==
    /\ tOut # NotRun
    /\ tScript.text /\ tScript.run = "ok" /\ tScript.fn = "function"
    /\ tScript.call = "returns"
    /\ tScript.ret.t = "object"

RetSuccess == ParsedObject /\ tScript.ret.success = Bool(TRUE)

RetMessage == IF IsString(tScript.ret.message) THEN tScript.ret.message.v ELSE ""

RetItems == IF tScript.ret.items.t = "array" THEN tScript.ret.items.v ELSE <<>>

ValidAt(arr, i) ==
    /\ arr[i].t = "object"
    /\ arr[i].content.t = "string"
    /\ arr[i].content.v # ""

ValidIdx(arr) == {i \in 1..Len(arr) : ValidAt(arr, i)}

\* the j-th smallest element of S
Nth(S, j) == CHOOSE i \in S : Cardinality({x \in S : x <= i}) = j

\* C7 as stated: without success = true the attempt fails, the failure's
\* message is the script's message ("no stock" for {success:false,
\* message:"no stock"}), a generic string when the message is empty or
\* absent, and no item is handed on.
C7_FailureMessageIsScripts ==
    (ParsedObject /\ ~RetSuccess) =>
        /\ tOut.err = <<IF RetMessage = "" THEN GenericFailure ELSE RetMessage>>
        /\ tOut.res.Items = <<>>

\* C7 amended: without success = true the attempt fails with the error text
\* "script delivery failed: " followed by the script's message, or by the
\* generic "script delivery failed" when the message is empty, absent or no
\* string; the returned result carries the script's message unchanged and
\* no item.
C7_FailureCarriesMessage ==
    (ParsedObject /\ ~RetSuccess) =>
        /\ tOut.err # NilErr
        /\ tOut.err = <<FailedPrefix, IF RetMessage = "" THEN GenericFailure ELSE RetMessage>>
        /\ tOut.res.Success = FALSE
        /\ tOut.res.Message = RetMessage
        /\ tOut.res.Items = <<>>

C7_Witness ==
    /\ ParsedObject
    /\ tScript.ret.success = Bool(FALSE)
    /\ tScript.ret.message = Str("no stock")
    /\ tOut.err = <<FailedPrefix, "no stock">>

\* C8: with success = true the validated items are exactly the entries whose
\* content is a non-empty string, in their original order; with items
\* missing, no array, or without such an entry the attempt fails with the
\* no-items error.
C8_ValidItemsInOrder ==
    RetSuccess =>
        LET valid == ValidIdx(RetItems)
        IN  IF valid = {}
            THEN tOut.err = ErrNoItems /\ tOut.res.Items = <<>>
            ELSE /\ tOut.err = NilErr
                 /\ Len(tOut.res.Items) = Cardinality(valid)
                 /\ \A j \in 1..Cardinality(valid) :
                        tOut.res.Items[j].Content = RetItems[Nth(valid, j)].content.v

C8_Witness ==
    /\ RetSuccess
    /\ Len(RetItems) = 2
    /\ RetItems[1].t = "object" /\ RetItems[1].content = Str("")
    /\ RetItems[2].t = "object" /\ RetItems[2].content = Str("B")
    /\ tOut.err = NilErr
    /\ Len(tOut.res.Items) = 1 /\ tOut.res.Items[1].Content = "B"

\* C9: a successful result with k >= 1 valid items is accepted for every
\* expected quantity q >= 1, be k < q, k = q or k > q; all k items are
\* returned (content, and remark when it is a string) and the count
\* mismatch is logged exactly when k # q.
C9_AcceptedWhateverCount ==
    (RetSuccess /\ ValidIdx(RetItems) # {}) =>
        LET valid == ValidIdx(RetItems)
            k == Cardinality(valid)
        IN  /\ tOut.err = NilErr
            /\ tOut.res.Success = TRUE
            /\ Len(tOut.res.Items) = k
            /\ \A j \in 1..k :
                   LET e == RetItems[Nth(valid, j)]
                   IN  /\ tOut.res.Items[j].Content = e.content.v
                       /\ tOut.res.Items[j].Remark =
                              (IF IsString(e.remark) THEN e.remark.v ELSE "")
            /\ tOut.warned <=> (k # tQty)

\* more items than asked for: accepted, with the warning
C9_Witness ==
    /\ RetSuccess
    /\ Cardinality(ValidIdx(RetItems)) = 2
    /\ tQty = 1
    /\ tOut.err = NilErr
    /\ Len(tOut.res.Items) = 2
    /\ tOut.warned

(***************************************************************************)
(* Claims about the order sweep.                                           *)
(***************************************************************************)
\* C1: however several runs of the sweep that read the same stale order
\* interleave with each other and with payment, the pending_payment ->
\* cancelled update of an order affects a row in at most one cancelOrder
\* call and the releases run at most once per order; a call whose update
\* affects no row returns nil and releases nothing.
C1_CancelledAtMostOnce ==
    /\ [](\A o \in Orders : cancelWins[o] <= 1 /\ releaseRuns[o] <= cancelWins[o])
    /\ [][\A s \in Sweepers :
            (CancelUpdate(s) /\ orderStatus[Head(swBatch[s])] # "pending_payment") =>
                /\ lastOp' = Op("cancelOrder", 0, NilErr)
                /\ swPc'[s] # "release"
                /\ UNCHANGED <<stocks, holds, binding, orderStatus, releaseRuns>>]_vars

\* two calls for one order: one cancelled it and released, the other found
\* no row to update
C1_Witness ==
    \E o \in Orders :
        /\ orderStatus[o] = "cancelled"
        /\ cancelWins[o] = 1
        /\ releaseRuns[o] = 1
        /\ cancelSkips[o] >= 1

(***************************************************************************)
(* Claims about the stock ledger.                                          *)
(***************************************************************************)
StatusChanges ==
    {<<"available", "reserved">>, <<"reserved", "sold">>,
     <<"reserved", "available">>, <<"available", "invalid">>}

RECURSIVE SumHeld(_)
SumHeld(os) ==
    IF os = {} THEN 0
    ELSE LET o == CHOOSE x \in os : TRUE IN Cardinality(holds[o]) + SumHeld(os \ {o})

\* C3: the rows Reserve handed to different orders never overlap, every one
\* of them is reserved for the order that holds it, and together the
\* orders hold no more rows than the static pool has.
C3_NoDoubleReservation ==
    /\ \A o1, o2 \in Orders : o1 # o2 => holds[o1] \cap holds[o2] = {}
    /\ \A o \in Orders : \A i \in holds[o] :
          /\ i \in RowIds(stocks)
          /\ stocks[i].status = "reserved"
          /\ stocks[i].order = o
    /\ SumHeld(Orders)
          <= Cardinality({i \in RowIds(stocks) : stocks[i].pool = "static"})

\* two orders hold rows and nothing of the pool is left available
C3_Witness ==
    /\ holds[1] # {} /\ holds[2] # {}
    /\ \A i \in RowIds(stocks) : stocks[i].pool = "static" => stocks[i].status = "reserved"
    /\ SumHeld(Orders) = Cardinality({i \in RowIds(stocks) : stocks[i].pool = "static"})

AvailableStatic == {i \in RowIds(stocks) : stocks[i].pool = "static" /\ stocks[i].status = "available"}

\* C4: a reservation of q rows against fewer than q available rows returns
\* InsufficientStock and leaves every row as it was; otherwise exactly the
\* q oldest available rows become reserved for the requesting order and no
\* other row changes.
C4_AllOrNothing ==
    [][\A o \in Orders, q \in 1..MaxQty :
          CreateOrder(o, q, 0) =>
              IF Cardinality(AvailableStatic) < q
              THEN /\ lastOp' = Op("create", 0, <<"InsufficientStock">>)
                   /\ stocks' = stocks
                   /\ orderStatus'[o] = "draft"
              ELSE LET taken == {i \in RowIds(stocks) : stocks'[i] # stocks[i]}
                   IN  /\ lastOp' = Op("create", 0, NilErr)
                       /\ Len(stocks') = Len(stocks)
                       /\ Cardinality(taken) = q
                       /\ taken \subseteq AvailableStatic
                       /\ \A i \in taken, j \in AvailableStatic \ taken : i < j
                       /\ \A i \in taken : stocks'[i] = Row("reserved", "static", o)]_vars

\* a reservation refused while a row was available: nothing was taken
C4_Witness ==
    /\ lastOp = Op("create", 0, <<"InsufficientStock">>)
    /\ Cardinality(AvailableStatic) = 1

(***************************************************************************)
(* Claims about script delivery.                                           *)
(***************************************************************************)
\* C5: with total_limit set, the pool's sold counter plus the quantity
\* still pending (bound, or reserved as a placeholder, and not delivered)
\* never exceeds total_limit.
C5_WithinTotalLimit ==
    totalLimit > 0 => soldCount + OutstandingPending <= totalLimit

\* the script, by itself, is a failure: no script text, an error or a
\* timeout while it runs, no onDeliver function, or a return value that is
\* no object, has no success = true or has no entry with content
ScriptFails(script) ==
    \/ ~script.text
    \/ script.run # "ok"
    \/ script.fn # "function"
    \/ script.call # "returns"
    \/ script.ret.t # "object"
    \/ script.ret.success # Bool(TRUE)
    \/ script.ret.items.t # "array"
    \/ ValidIdx(script.ret.items.v) = {}

\* the entries with content a script returns
ValidCount(script) ==
    IF ScriptFails(script) THEN 0 ELSE Cardinality(ValidIdx(script.ret.items.v))

\* C6: a delivery whose script fails returns an error and leaves the
\* ledger as it was: no row created or changed, the sold counter and the
\* pending quantity unchanged.
C6_FailedDeliveryChangesNothing ==
    [][\A o \in Orders, script \in DeliveryScripts :
          (DeliverScriptWith(o, script) /\ ScriptFails(script)) =>
              /\ lastOp'.op = "deliver"
              /\ lastOp'.err # NilErr
              /\ stocks' = stocks
              /\ soldCount' = soldCount
              /\ binding' = binding]_vars

\* a delivery failed on the script's own message
C6_Witness ==
    /\ lastOp.op = "deliver"
    /\ lastOp.err = <<FailedPrefix, "no stock">>
    /\ \E o \in Orders : orderStatus[o] = "pending" /\ PendingOf(o) > 0

AutoClosed(t, s) ==
    [tickets[t] EXCEPT !.status = "closed", !.closedAt = TRUE,
                       !.msgs = @ + 1, !.msgHours = tsHours[s],
                       !.unread = @ + 1, !.age = 0, !.lastBy = "admin"]

\* run s returns from its closeTicket call in this step
TkReturns(s) == tsPc[s] # "idle" /\ tsBatch'[s] # tsBatch[s]

\* C11: a ticket auto-close is atomic. A closeTicket call either returns
\* nil having closed an active ticket, with closed_at, one system message,
\* unread_count_user + 1 and the last-message fields all written in the
\* same step, or leaves the ticket as it was (it returned an error, the
\* status flip undone, or there was no row to update); and the message
\* count, the unread counter and closed_at change in no other step.
C11_AutoCloseAtomic ==
    [][/\ \A s \in TicketSweepers :
            TkReturns(s) =>
                LET t == Head(tsBatch[s])
                IN  IF tickets'[t] # tickets[t]
                    THEN /\ tickets[t].status \in ActiveStatuses
                         /\ tsRet'[s] = "nil"
                         /\ tickets'[t] = AutoClosed(t, s)
                    ELSE tsRet'[s] = "err" \/ tickets[t].status \notin ActiveStatuses
       /\ \A t \in Tickets :
            (\/ tickets'[t].msgs # tickets[t].msgs
             \/ tickets'[t].unread # tickets[t].unread
             \/ tickets'[t].closedAt # tickets[t].closedAt) =>
                \E s \in TicketSweepers :
                    /\ TkReturns(s)
                    /\ Head(tsBatch[s]) = t
                    /\ tickets'[t] = AutoClosed(t, s)]_vars

\* one ticket closed with its message while a call on another, still
\* inactive, ticket came back with an error
C11_Witness ==
    \E s \in TicketSweepers, t1, t2 \in Tickets :
        /\ tickets[t1].status = "closed" /\ tickets[t1].msgs = 1 /\ tickets[t1].closedAt
        /\ tsRet[s] = "err"
        /\ tsCount[s] = 1
        /\ tsPc[s] = "idle"
        /\ tickets[t2].status \in ActiveStatuses
        /\ tickets[t2].msgs = 0 /\ ~tickets[t2].closedAt
        /\ tickets[t2].age > ticketHours

\* C12: however the runs of the ticket sweep interleave with each other
\* and with the other changes of a ticket's status, a ticket gets at most
\* one auto-close message and at most one increment of its unread counter;
\* a closeTicket call whose update affects no row returns nil, adds no
\* message and changes no counter.
C12_OneMessagePerTicket ==
    /\ [](\A t \in Tickets : tickets[t].msgs <= 1)
    /\ [][\A t \in Tickets :
            tickets'[t].unread # tickets[t].unread =>
                /\ tickets[t].msgs = 0
                /\ tickets'[t].msgs = 1
                /\ tickets'[t].unread = tickets[t].unread + 1]_vars
    /\ [][\A s \in TicketSweepers :
            (/\ tsPc[s] = "update"
             /\ TkReturns(s)
             /\ tickets[Head(tsBatch[s])].status \notin ActiveStatuses
             /\ tsRet'[s] # "err") =>
                /\ tsRet'[s] = "nil"
                /\ tickets' = tickets]_vars

\* two runs each handled the one ticket with a last message and neither
\* got an error: one closed it, the other found no row to update
C12_Witness ==
    \E t \in Tickets :
        /\ tickets[t].msgs = 1
        /\ \A t2 \in Tickets \ {t} : tickets[t2].age = -1
        /\ \A s \in TicketSweepers : tsCount[s] = 1 /\ tsRet[s] = "nil" /\ tsPc[s] = "idle"

(***************************************************************************)
(* Claims about the order sweep in full.                                   *)
(***************************************************************************)
Releases == {"inventory", "virtual", "promo", "serial"}

\* C13: once cancelOrder has flipped the order to cancelled, every release
\* that applies to the order is attempted whatever the earlier ones
\* returned; a release that fails leaves its resource held, the others
\* free theirs, the order stays cancelled and cancelOrder returns nil.
C13_ReleasesIndependent ==
    [][\A s \in Sweepers :
          (swPc[s] = "release" /\ swPc'[s] # "release") =>
              LET o == Head(swBatch[s])
                  done == swTried'[s] \ swFailed'[s]
              IN  /\ orderStatus[o] = "cancelled"
                  /\ orderStatus'[o] = "cancelled"
                  /\ swRet'[s] = "nil"
                  /\ swTried'[s] = {r \in Releases : Applies(r, o)}
                  /\ swFailed'[s] \subseteq swTried'[s]
                  /\ orderExt'[o].inventory =
                        IF "inventory" \in done THEN 0 ELSE orderExt[o].inventory
                  /\ orderExt'[o].promo =
                        IF "promo" \in done THEN "released" ELSE orderExt[o].promo
                  /\ orderExt'[o].serials =
                        IF "serial" \in done THEN FALSE ELSE orderExt[o].serials
                  /\ stocks' = IF "virtual" \in done THEN ReleaseStock(stocks, o) ELSE stocks]_vars

\* the first release failed and the three after it went through
C13_Witness ==
    \E o \in Orders :
        /\ swFailed[1] = {"inventory"}
        /\ swTried[1] = Releases
        /\ swRet[1] = "nil"
        /\ swPc[1] = "idle"
        /\ orderStatus[o] = "cancelled"
        /\ orderExt[o].inventory = 1
        /\ orderExt[o].promo = "released"
        /\ ~orderExt[o].serials
        /\ holds[o] = {}
        /\ \A o2 \in Orders \ {o} : orderStatus[o2] = "draft"

\* run s of the order sweep takes a step
SweepStep(s) == swPc'[s] # swPc[s] \/ swBatch'[s] # swBatch[s]

\* the order, or something it holds, is changed by the step
OrderChanged(o) ==
    \/ orderStatus'[o] # orderStatus[o]
    \/ orderExt'[o] # orderExt[o]
    \/ holds'[o] # holds[o]
    \/ binding'[o] # binding[o]
    \/ \E i \in RowIds(stocks) : stocks[i].order = o /\ stocks'[i] # stocks[i]

\* C14: the sweep changes an order only if its query selected it, in
\* pending_payment and created more than the hours of the run ago, and
\* the order is still in pending_payment at the conditional update (or, in
\* the releases, has just been cancelled by this call); an order in any
\* other status is not modified and nothing it holds is released.
C14_OnlyExpiredPendingPayment ==
    /\ [][\A s \in Sweepers :
            (swPc[s] = "idle" /\ SweepStep(s)) =>
                \A i \in 1..Len(swBatch'[s]) :
                    /\ orderStatus[swBatch'[s][i]] = "pending_payment"
                    /\ orderExt[swBatch'[s][i]].age > swHours'[s]]_vars
    /\ [][\A s \in Sweepers :
            SweepStep(s) =>
                \A o \in Orders :
                    OrderChanged(o) =>
                        /\ o = Head(swBatch[s])
                        /\ orderExt[o].age > swHours[s]
                        /\ \/ swPc[s] = "update" /\ orderStatus[o] = "pending_payment"
                           \/ /\ swPc[s] = "release"
                              /\ orderStatus[o] = "cancelled"
                              /\ orderExt[o].remark = swHours[s]]_vars

\* the one order the run had read was paid before its update: the call
\* returned nil and the order holds what it held
C14_Witness ==
    \E o \in Orders :
        /\ orderStatus[o] = "pending"
        /\ orderExt[o].age > swHours[1]
        /\ orderExt[o].remark = 0
        /\ holds[o] # {}
        /\ orderExt[o].serials
        /\ swRet[1] = "nil"
        /\ swCount[1] = 1
        /\ swPc[1] = "idle"
        /\ \A o2 \in Orders \ {o} : orderStatus[o2] = "draft"

(***************************************************************************)
(* Claims about the services' loops.                                       *)
(***************************************************************************)
\* C15: once Stop has closed stopChan the loop, at its select, starts no
\* new sweep; a sweep in progress runs to its end without being
\* interrupted; and Stop returns only after the loop has exited. For the
\* order loop and the ticket loop alike, also when a tick is ready
\* together with the stop signal.
C15_StopStartsNoSweep ==
    /\ [][\A k \in Services :
            (lpStop[k] /\ lpPc[k] = "select") => lpPc'[k] # "sweeping"]_vars
    /\ [][\A k \in Services :
            (lpPc[k] = "sweeping" /\ lpPc'[k] # "sweeping") =>
                lpLeft[k] = 0 /\ lpPc'[k] = "select"]_vars
    /\ [](\A k \in Services : lpStopPc[k] = "returned" => lpPc[k] = "exited")

(***************************************************************************)
(* Claims about the runs of the two sweeps.                                *)
(***************************************************************************)
\* C16: an error while cancelling one order or closing one ticket does not
\* end the run: the entity is left as it was and is not counted, the loop
\* goes on with the rest of the batch, and a run ends only when its batch
\* is used up.
C16_ErrorDoesNotEndRun ==
    /\ [][\A s \in Sweepers :
            (swPc[s] # "idle" /\ swBatch'[s] # swBatch[s] /\ swRet'[s] = "err") =>
                LET o == Head(swBatch[s])
                IN  /\ ~OrderChanged(o)
                    /\ swCount'[s] = swCount[s]
                    /\ swBatch'[s] = Tail(swBatch[s])
                    /\ swPc'[s] = IF swBatch'[s] = <<>> THEN "idle" ELSE "update"]_vars
    /\ [][\A s \in TicketSweepers :
            (TkReturns(s) /\ tsRet'[s] = "err") =>
                LET t == Head(tsBatch[s])
                IN  /\ tickets'[t] = tickets[t]
                    /\ tsCount'[s] = tsCount[s]
                    /\ tsBatch'[s] = Tail(tsBatch[s])
                    /\ tsPc'[s] = IF tsBatch'[s] = <<>> THEN "idle" ELSE "update"]_vars
    /\ [](/\ \A s \in Sweepers : swPc[s] = "idle" => swBatch[s] = <<>>
          /\ \A s \in TicketSweepers : tsPc[s] = "idle" => tsBatch[s] = <<>>)

\* in each sweep the call on the first entity failed and the second
\* entity was handled and counted all the same
C16_Witness ==
    /\ orderStatus[1] = "pending_payment" /\ orderStatus[2] = "cancelled"
    /\ swHours[1] > 0 /\ swCount[1] = 1 /\ swPc[1] = "idle"
    /\ tickets[1].status = "open" /\ tickets[2].status = "closed" /\ tickets[2].msgs = 1
    /\ tsHours[1] > 0 /\ tsCount[1] = 1 /\ tsPc[1] = "idle"

\* C17: a tick of either sweep takes at most 100 stale entities and changes
\* only entities of its batch; what else is stale stays stale for a later
\* tick.
C17_AtMostLimitPerTick ==
    /\ [](Len(btBatch) + btCount <= QueryLimit)
    /\ [][btStale' # btStale =>
            /\ btPc = "update"
            /\ btStale' = btStale \ {Head(btBatch)}]_vars
    /\ [][(btPc = "idle" /\ btPc' = "update") =>
            /\ Len(btBatch') <= QueryLimit
            /\ \A i \in 1..Len(btBatch') : btBatch'[i] \in btStale
            /\ btStale' = btStale]_vars

\* a tick that found more than 100 stale entities has ended with 100
\* handled and the others still stale
C17_Witness ==
    /\ btPc = "idle"
    /\ btCount = QueryLimit
    /\ btStale # {}

\* the hours a tick of the order sweep works with when h is configured
EffectiveOrderHours(h) == IF h > 0 THEN h ELSE 72

\* C18: the query of a tick reads the hours configured at that moment (the
\* order sweep takes 72 for a value <= 0, the ticket sweep does nothing for
\* one) and selects by them; while the tick runs its hours stay what they
\* were read as, whatever is configured meanwhile, and every order it
\* cancels and every ticket it closes carries them.
C18_HoursOfTheTick ==
    /\ [][\A s \in Sweepers :
            (swPc[s] = "idle" /\ (swPc'[s] # "idle" \/ swHours'[s] # swHours[s])) =>
                /\ swHours'[s] = EffectiveOrderHours(orderHours)
                /\ \A o \in Orders :
                       (\E i \in 1..Len(swBatch'[s]) : swBatch'[s][i] = o) <=>
                           (/\ orderStatus[o] = "pending_payment"
                            /\ orderExt[o].age > EffectiveOrderHours(orderHours))]_vars
    /\ [][\A s \in TicketSweepers :
            (tsPc[s] = "idle" /\ (tsPc'[s] # "idle" \/ tsHours'[s] # tsHours[s])) =>
                /\ tsHours'[s] = ticketHours
                /\ \A t \in Tickets :
                       (\E i \in 1..Len(tsBatch'[s]) : tsBatch'[s][i] = t) <=>
                           (/\ ticketHours > 0
                            /\ tickets[t].status \in ActiveStatuses
                            /\ tickets[t].age > ticketHours)]_vars
    /\ [][\A s \in Sweepers : swPc[s] # "idle" =>
            /\ swHours'[s] = swHours[s]
            /\ \A o \in Orders : orderStatus'[o] # orderStatus[o] =>
                   orderExt'[o].remark = swHours[s]]_vars
    /\ [][\A s \in TicketSweepers : tsPc[s] # "idle" =>
            /\ tsHours'[s] = tsHours[s]
            /\ \A t \in Tickets : tickets'[t].status # tickets[t].status =>
                   tickets'[t].msgHours = tsHours[s]]_vars

\* both ticks are under way with hours that are no longer the configured
\* ones: the order sweep has cancelled an order by the 72 hours it took for
\* a value <= 0, the ticket sweep has closed a ticket by the hours it read
C18_Witness ==
    /\ swPc[1] # "idle" /\ swHours[1] = 72 /\ orderHours > 0
    /\ \E o \in Orders : orderStatus[o] = "cancelled" /\ orderExt[o].remark = 72
    /\ tsPc[1] # "idle" /\ tsHours[1] # ticketHours
    /\ \E t \in Tickets : tickets[t].status = "closed" /\ tickets[t].msgHours = tsHours[1]

(***************************************************************************)
(* Claims about what an order still has to get.                            *)
(***************************************************************************)
\* the order has nothing left to deliver from the script pool: no reserved
\* placeholder and no unit of its binding that is not sold yet
NothingLeft(o) ==
    /\ ReservedOf(stocks, "script", o) = {}
    /\ binding[o] > 0 => Cardinality(SoldOf(stocks, "script", o)) >= binding[o]

\* C19: in every state the pending quantity of an order is the number of
\* reserved script rows of the order plus, for its binding, the bound
\* quantity less the sold rows written for the order, and it is 0 exactly
\* when the order has nothing left to deliver.
C19_PendingIsDualSum ==
    \A o \in Orders :
        /\ PendingOf(o) =
               Cardinality(ReservedOf(stocks, "script", o))
                   + (IF binding[o] > 0
                      THEN binding[o] - Cardinality(SoldOf(stocks, "script", o))
                      ELSE 0)
        /\ PendingOf(o) = 0 <=> NothingLeft(o)

\* C20: the order is delivered by itself only if every line that still has
\* something to get, legacy placeholders and binding alike, is of an
\* auto_delivery product; one pending unit of another product and it is
\* not.
C20_AutoDeliverAllOrNothing ==
    adOut.done =>
        /\ adOut.can => \A i \in 1..Len(adLines) :
                        LinePending(adLines[i]) > 0 => adLines[i].auto
        /\ (\E i \in 1..Len(adLines) :
                LinePending(adLines[i]) > 0 /\ ~adLines[i].auto) => ~adOut.can

\* refused for an order with legacy placeholders of an auto_delivery
\* product and a binding of another product that is partly sold
C20_Witness ==
    /\ adOut.done /\ ~adOut.can
    /\ \E i \in 1..Len(adLines) :
           adLines[i].flow = "legacy" /\ adLines[i].auto /\ LinePending(adLines[i]) > 0
    /\ \E i \in 1..Len(adLines) :
           /\ adLines[i].flow = "binding" /\ ~adLines[i].auto
           /\ adLines[i].sold > 0 /\ LinePending(adLines[i]) > 0

(***************************************************************************)
(* Claims about the release of an order.                                   *)
(***************************************************************************)
\* the step is a ReleaseForOrder call for the order
ReleaseStep(o) ==
    /\ lastOp'.op = "release"
    /\ lastOp'.order = o
    /\ lastOp' # lastOp \/ stocks' # stocks \/ binding' # binding

\* the step comes right after a ReleaseForOrder call for the order
JustReleased(o) == lastOp.op = "release" /\ lastOp.order = o

\* C21: a ReleaseForOrder call makes every static row reserved for the
\* order available, removes the order's binding and reports no error; a
\* second call on the same order affects no row and changes neither rows
\* nor bindings; a sold row is changed by no call.
C21_ReleaseIdempotent ==
    /\ [][\A o \in Orders : ReleaseStep(o) =>
            /\ lastOp'.err = NilErr
            /\ binding'[o] = 0
            /\ Len(stocks') = Len(stocks)
            /\ \A i \in RowIds(stocks) :
                   /\ (stocks[i].pool = "static" /\ stocks[i].status = "reserved"
                           /\ stocks[i].order = o) =>
                          stocks'[i] = Row("available", "static", 0)
                   /\ stocks[i].status = "sold" => stocks'[i] = stocks[i]
            /\ Release(stocks', o) = stocks'
            /\ Unbind(binding', o) = binding']_vars
    /\ [][\A o \in Orders : (JustReleased(o) /\ lastOp'.op = "release" /\ lastOp'.order = o) =>
            /\ stocks' = stocks
            /\ binding' = binding
            /\ lastOp'.qty = 0
            /\ lastOp'.err = NilErr]_vars

\* an order with two static rows and a binding was released, and released
\* again, beside a sold row of another order
C21_Witness ==
    /\ lastOp.op = "release" /\ lastOp.qty = 0
    /\ binding[lastOp.order] = 0
    /\ orderStatus[lastOp.order] = "pending_payment"
    /\ Cardinality({i \in RowIds(stocks) : stocks[i] = Row("available", "static", 0)}) = 2
    /\ \E i \in RowIds(stocks) : stocks[i].status = "sold"

\* the rows of a pool: those that are not deleted
PoolRows(rows, pool) ==
    {i \in RowIds(rows) : rows[i].pool = pool /\ rows[i].status # "invalid"}

C23_BoundOrdersNeverReserve ==
    /\ [](\A o \in Orders : binding[o] > 0 => ReservedOf(stocks, "script", o) = {})
    /\ [][Len(stocks') # Len(stocks) =>
            /\ Len(stocks') > Len(stocks)
            /\ lastOp'.op = "deliver" /\ lastOp'.err = NilErr
            /\ \E o \in Orders :
                   /\ binding[o] > 0 /\ orderStatus[o] = "pending"
                   /\ \A i \in (Len(stocks) + 1)..Len(stocks') :
                          stocks'[i] = Row("sold", "script", o)
            /\ \A i \in RowIds(stocks) : stocks'[i] = stocks[i]
            /\ soldCount' = soldCount + (Len(stocks') - Len(stocks))]_vars

\* two orders with bindings were delivered: two sold rows, the counter at
\* two, and no row of the pool other than sold
C23_Witness ==
    /\ \A o \in {1, 2} : binding[o] > 0 /\ SoldOf(stocks, "script", o) # {}
    /\ soldCount = 2
    /\ \A i \in RowIds(stocks) : stocks[i].status = "sold"

(***************************************************************************)
(* Claims about the interpreter and the timer of a call.                   *)
(***************************************************************************)
\* C24: every call of ExecuteDeliveryScript that runs a script has an
\* interpreter made for it, empty of globals and not told to interrupt,
\* that no other call has, at the same time or later; whatever a call
\* sees of the globals it has written itself.
C24_FreshInterpreterPerCall ==
    /\ [](\A c, d \in Calls :
              (c # d /\ ivVm[c] # 0 /\ ivVm[d] # 0) => ivVm[c] # ivVm[d])
    /\ [](\A c \in Calls : ivSeen[c].looked => ivSeen[c].globals \subseteq ivWrote[c])
    /\ [][\A c \in Calls : (ivVm[c] = 0 /\ ivVm'[c] # 0) =>
            /\ ivVm'[c] \notin 1..Len(vmGlobals)
            /\ vmGlobals'[ivVm'[c]] = {}
            /\ ~vmIntr'[ivVm'[c]]]_vars

\* the first call has written the global and returned its items; the
\* second call has looked for the global in its own top-level code and
\* found none
C24_Witness ==
    /\ ivPc[1] = "done" /\ ivWrote[1] = Globals /\ vmGlobals[ivVm[1]] = Globals
    /\ ivPc[2] = "top" /\ ivVm[2] > ivVm[1]
    /\ ivSeen[2].looked /\ ivSeen[2].globals = {} /\ ivWrote[2] = {}

\* the call takes a step
CallSteps(c) == ivPc'[c] # ivPc[c] \/ ivLeft'[c] # ivLeft[c]

\* the call returns an error and no result
ReturnsErrorOnly(c) ==
    /\ ivPc'[c] = "done"
    /\ ivRet'[c].err # NilErr
    /\ ivRet'[c].res = NilResult

\* C25: once the timer of a call has fired while its top-level code or its
\* onDeliver has instructions left, the next step of the call is its
\* return, with an error and no result; a call that has returned does
\* nothing more (no second run); a timer is never left armed by a call that
\* has returned, and an interpreter is told to interrupt only by the timer
\* of the call that runs in it, while that call runs.
C25_TimeoutIsHardInterrupt ==
    /\ [][\A c \in Calls :
            (ivTimer[c] = "fired" /\ ivPc[c] \in {"top", "fn"} /\ CallSteps(c)) =>
                IF ivLeft[c] > 0 THEN ReturnsErrorOnly(c)
                ELSE IF ivPc[c] = "top"
                THEN ReturnsErrorOnly(c) \/ (ivPc'[c] = "fn" /\ ivLeft'[c] > 0)
                ELSE ivPc'[c] = "done"]_vars
    /\ [][\A c \in Calls : ivPc[c] = "done" =>
            /\ ivPc'[c] = "done" /\ ivRet'[c] = ivRet[c]
            /\ ivVm'[c] = ivVm[c] /\ ivScript'[c] = ivScript[c]]_vars
    /\ [](Len(vmGlobals) <= Cardinality({c \in Calls : ivPc[c] # "idle"}))
    /\ [](\A c \in Calls : ivPc[c] = "done" => ivTimer[c] # "armed")
    /\ [][\A v \in 1..Len(vmIntr) : (vmIntr'[v] /\ ~vmIntr[v]) =>
            \E c \in Calls :
                /\ ivVm[c] = v /\ ivPc[c] \in {"top", "fn"}
                /\ ivTimer[c] = "armed" /\ ivTimer'[c] = "fired"]_vars

\* the first call was cut short in its onDeliver by its timer and returned
\* the timeout error; the second call, begun after it, has delivered
C25_Witness ==
    /\ ivPc[1] = "done" /\ ivTimer[1] = "fired"
    /\ ivRet[1].err = Errorf("onDeliver execution error: ", "timeout")
    /\ ivRet[1].res = NilResult
    /\ ivPc[2] = "done" /\ ivVm[2] > ivVm[1] /\ ivTimer[2] = "stopped"
    /\ ivRet[2].err = NilErr /\ ~vmIntr[ivVm[2]]

(***************************************************************************)
(* Claims about the HTTP capability of a script.                           *)
(***************************************************************************)
HttpBlocked == htCall.nargs >= MinArgs(htCall.api) /\ htCall.url \in {"loopback", "link_local"}

\* what makes the call fail, from the call and from what came back
HttpFailed ==
    \/ htCall.nargs < MinArgs(htCall.api)
    \/ htCall.url \in {"unparsable", "loopback", "link_local"}
    \/ BodyOf(htCall) = "unencodable"
    \/ MethodOf(htCall) = "invalid"
    \/ htResp # NoResponse /\ ~htResp.received
    \/ htResp # NoResponse /\ htResp.received /\ htResp.read = "fails"

\* C26: every call of http.get, http.post or http.request returns a value
\* to the script: on missing arguments, an unparsable or blocked URL, a body
\* that cannot be encoded, a request that cannot be created, a transport
\* failure or a failure to read the body it has an error field and a
\* status, which is 0 unless a response status was received; otherwise it
\* has status and body, and data only when the response is JSON that parses.
C26_HttpAlwaysReturnsValue ==
    htPc = "done" =>
        /\ htOut # NotRun
        /\ IF HttpFailed
           THEN /\ DOMAIN htOut = {"error", "status"}
                /\ htOut.status = IF htResp # NoResponse /\ htResp.received
                                  THEN htResp.status ELSE 0
           ELSE /\ {"status", "body"} \subseteq DOMAIN htOut
                /\ DOMAIN htOut \subseteq {"status", "body", "data"}
                /\ htOut.status = htResp.status
                /\ "data" \in DOMAIN htOut => htResp.json /\ htResp.parse # "invalid"

\* the body of a response with status 500 could not be read
C26_Witness ==
    /\ htPc = "done"
    /\ htResp # NoResponse /\ htResp.received /\ htResp.read = "fails"
    /\ htResp.status = 500
    /\ "error" \in DOMAIN htOut /\ htOut.status = 500

\* C27: a call whose destination the external-URL check rejects returns
\* an error value with status 0, and no request is created or sent for it.
C27_ValidationPrecedesSending ==
    HttpBlocked =>
        /\ htReq = NoRequest
        /\ htResp = NoResponse
        /\ htPc = "done" => htOut = [error |-> "URL is not allowed", status |-> 0]

\* a call to the link-local metadata address has returned
C27_Witness ==
    /\ htPc = "done"
    /\ htCall.api = "request" /\ htCall.nargs = 4
    /\ htCall.url = "link_local"
    /\ htReq = NoRequest
    /\ htOut = [error |-> "URL is not allowed", status |-> 0]

\* the header map the script passed, if it passed one
Supplied == IF htCall.nargs > HeadersIdx(htCall.api) THEN htCall.headers ELSE NoHeaders

SuppliedStrings == {n \in DOMAIN Supplied : IsString(Supplied[n])}

Forbidden(n) == Lower(n) \in {"host", "proxy-authorization"}

\* C28 as stated: the request carries none of the script's Host and
\* Proxy-Authorization headers in any letter case, and carries every other
\* string-valued header the script supplied.
C28_CarriesEveryOtherHeader ==
    htReq.created =>
        /\ \A n \in DOMAIN Supplied :
               Forbidden(n) => CanonicalKey(n) \notin DOMAIN htReq.headers
        /\ \A n \in SuppliedStrings :
               ~Forbidden(n) =>
                   /\ CanonicalKey(n) \in DOMAIN htReq.headers
                   /\ htReq.headers[CanonicalKey(n)] = Supplied[n].v

\* C28, amended: the request carries none of the script's Host and
\* Proxy-Authorization headers in any letter case, and for every other
\* string-valued header it carries one header of that name, whose value is
\* one of the values the script supplied under a name that differs from it
\* in letter case at most.
C28_CarriesOneHeaderPerName ==
    htReq.created =>
        /\ \A n \in DOMAIN Supplied :
               Forbidden(n) => CanonicalKey(n) \notin DOMAIN htReq.headers
        /\ \A n \in SuppliedStrings :
               ~Forbidden(n) =>
                   /\ CanonicalKey(n) \in DOMAIN htReq.headers
                   /\ htReq.headers[CanonicalKey(n)] \in
                          {Supplied[m].v : m \in {k \in SuppliedStrings : Lower(k) = Lower(n)}}

\* a request made for a map with hOST and x-token
C28_Witness ==
    /\ htReq.created
    /\ DOMAIN Supplied = {"hOST", "x-token"}
    /\ Supplied["hOST"] = Str("a") /\ Supplied["x-token"] = Str("b")
    /\ DOMAIN htReq.headers = {"User-Agent", "X-Token"}
    /\ htReq.headers["X-Token"] = "b"

(***************************************************************************)
(* Claims about the config and order capabilities of a script.             *)
(***************************************************************************)
\* C29: config.get(key) returns the pool's configured value when the key is
\* present, otherwise the supplied default, otherwise undefined, and
\* config.get() returns the whole map, whatever the script has done before
\* in the invocation.
C29_ConfigGetReadOnly ==
    /\ cfGot.kind = "get" =>
           cfGot.val = IF cfGot.key \in DOMAIN ParseScriptConfig(cfStored)
                       THEN Str(ParseScriptConfig(cfStored)[cfGot.key])
                       ELSE IF cfGot.nargs > 1 THEN cfGot.def ELSE Undef
    /\ cfGot.kind = "all" => cfGot.val.v = ParseScriptConfig(cfStored)

\* C30: no sequence of calls to order.get, order.getItems and
\* order.getUser, nor assignments to the objects they return or to the order
\* argument of onDeliver, changes the host's order, its items or its user.
C30_OrderCapabilityReadOnly == [][odHost' = odHost]_vars

\* the script has assigned to an object it got from order.get or as the
\* argument of onDeliver, and to an item it got from order.getItems
C30_Witness ==
    /\ odPc = "fn"
    /\ \E obj \in odHeld :
           obj.of = "order" /\ obj.val.status = "x" /\ odHost.order.status # "x"
    /\ \E obj \in odHeld :
           /\ obj.of = "items" /\ Len(obj.val.list) > 0 /\ obj.val.list[1].sku = "x"
           /\ odHost.rows # <<>> /\ odHost.rows[1].sku = "r1"

(***************************************************************************)
(* Claims about what ExecuteDeliveryScript hands to its caller.            *)
(***************************************************************************)
\* C31: when ExecuteDeliveryScript returns a nil error, the result has
\* Success = true and a non-empty list of items whose contents are all
\* non-empty strings; when it returns an error, the caller gets no result
\* or a result with Success = false or without items.
C31_NilErrorMeansDeliverable ==
    tOut # NotRun =>
        IF tOut.err = NilErr
        THEN /\ tOut.res # NilResult
             /\ tOut.res.Success
             /\ Len(tOut.res.Items) > 0
             /\ \A i \in 1..Len(tOut.res.Items) : tOut.res.Items[i].Content # ""
        ELSE \/ tOut.res = NilResult
             \/ ~tOut.res.Success
             \/ tOut.res.Items = <<>>

\* a script whose onDeliver returned success with an entry without content
\* and an entry with content was accepted with the one item
C31_Witness ==
    /\ tOut # NotRun
    /\ tScript.ret = ResultObj(Bool(TRUE), Arr(<<EntryObj(Str(""), Undef), EntryObj(Str("A"), Undef)>>), Undef)
    /\ tOut.err = NilErr
    /\ tOut.res.Success
    /\ Len(tOut.res.Items) = 1 /\ tOut.res.Items[1].Content = "A"

(***************************************************************************)
(* Claims about what the ticket sweep selects and closes.                  *)
(***************************************************************************)
\* run s selects its tickets in this step
TkSelects(s) == tsPc[s] = "idle" /\ tsPc'[s] = "update"

\* the fields only the sweep writes
SweepFields(row) == <<row.closedAt, row.msgs, row.unread, row.msgHours>>

\* C32: the ticket sweep closes a ticket only if the configured hours are
\* above 0, the ticket was selected with an active status and a last
\* message older than the cutoff, and its status is still active at the
\* conditional update; with hours <= 0 a sweep selects and changes nothing,
\* and a ticket without last message or with status closed is not touched.
C32_ClosesOnlySelectedActive ==
    /\ [][\A s \in TicketSweepers :
            /\ TkSelects(s) =>
                   /\ ticketHours > 0
                   /\ tsHours'[s] = ticketHours
                   /\ \A i \in 1..Len(tsBatch'[s]) :
                          LET t == tsBatch'[s][i]
                          IN  /\ tickets[t].status \in {"open", "processing", "resolved"}
                              /\ tickets[t].age # -1
                              /\ tickets[t].age > ticketHours
            /\ (tsPc[s] = "idle" /\ ticketHours <= 0) =>
                   tsPc'[s] = "idle" /\ tsBatch'[s] = tsBatch[s]
            /\ (tsPc[s] # "idle" /\ tsBatch'[s] # tsBatch[s]) =>
                   tsBatch'[s] = Tail(tsBatch[s])]_vars
    /\ [][\A t \in Tickets :
            SweepFields(tickets'[t]) # SweepFields(tickets[t]) =>
                /\ tickets'[t].status = "closed"
                /\ tickets[t].status \in {"open", "processing", "resolved"}
                /\ tickets[t].age # -1
                /\ \E s \in TicketSweepers :
                       /\ tsPc[s] = "counters"
                       /\ Head(tsBatch[s]) = t
                       /\ tsHours[s] > 0]_vars
    /\ [](\A s \in TicketSweepers :
            tsPc[s] \in {"create", "counters"} =>
                tickets[Head(tsBatch[s])].status \in {"open", "processing", "resolved"})

\* one run closed the ticket with an old last message while the hours
\* were above 0; after the hours were set to 0 the other ticket, closed by
\* hand, and nothing else was changed by a run
C32_Witness ==
    \E t1, t2 \in Tickets :
        /\ t1 # t2
        /\ tickets[t1].status = "closed" /\ tickets[t1].closedAt /\ tickets[t1].msgs = 1
        /\ tickets[t2].status = "closed" /\ ~tickets[t2].closedAt /\ tickets[t2].msgs = 0
        /\ tickets[t2].age = MaxHours
        /\ ticketHours = 0
        /\ \A s \in TicketSweepers : tsPc[s] = "idle"
        /\ \E s \in TicketSweepers : tsCount[s] = 1 /\ tsRet[s] = "nil"

(***************************************************************************)
(* Claims about the progress of the order sweep.                           *)
(***************************************************************************)
\* C33: if the loop keeps ticking, every stale order that stays in
\* pending_payment is eventually cancelled, also with more than 100 stale
\* orders at once and also when the cancellation of other stale orders
\* fails with an error on every tick.
\* (Orders leave the stale set only by being cancelled and never come
\* back, so this is: in the end the only stale orders left are those whose
\* cancellation keeps failing.)
C33_EveryStaleOrderCancelled == <>(btStale \subseteq btFailing)

(***************************************************************************)
(* Claims about the delayed SMS.                                           *)
(***************************************************************************)
\* C34: each payload placed in the delayed set is handed to the provider
\* at most once, however the ProcessDelayedSMS workers interleave.
C34_DelayedSentAtMostOnce ==
    \A p \in Payloads : smSent[p] <= smEnq[p]

\* run w deals with an entry in this step
WkDeals(w) == wkPc[w] = "loop" /\ wkBatch'[w] # wkBatch[w]

\* C35: ProcessDelayedSMS never sends an entry that was placed more than
\* 10 minutes before the pass: every entry a pass deals with is out of the
\* set after the step, it is sent only if it is at most 10 minutes old at
\* the time of the pass, and no step of a pass puts an entry into the set.
C35_NoExpiredSend ==
    /\ [](smLast.sent /\ smLast.delayed => smLast.now - smLast.score <= 10)
    /\ [][\A w \in SmsWorkers :
            WkDeals(w) =>
                LET z == Head(wkBatch[w])
                IN  /\ \A y \in smDelayed' : y.member # z.member
                    /\ smDelayed' \subseteq smDelayed
                    /\ smSent'[z.member] # smSent[z.member] => wkNow[w] - z.score <= 10
                    /\ wkNow[w] - z.score > 10 => smSent' = smSent /\ smLast' = smLast]_vars

\* a pass sent an entry placed exactly 10 minutes before it and dropped
\* another, placed 15 minutes before it, without a send
C35_Witness ==
    /\ smLast.sent /\ smLast.delayed /\ smLast.now - smLast.score = 10
    /\ \E p \in Payloads :
           /\ smEnq[p] = 1 /\ smSent[p] = 0
           /\ p # smLast.member
           /\ \A z \in smDelayed : z.member # p
    /\ smDelayed = {}
    /\ \A w \in SmsWorkers : wkPc[w] = "wait"
    /\ smClock = 15

(***************************************************************************)
(* Claims about invoices.                                                  *)
(***************************************************************************)
\* the requests that got past the token check with the token
PastCheck(t) == {r \in Views : vwTok[r] = t /\ (vwPc[r] = "checked" \/ (vwPc[r] = "done" /\ vwResp[r] # 401))}

\* C36: an invoice download token is single-use: however the
\* ViewInvoiceByToken requests with the same token interleave, at most one
\* of them gets past the token check; the others are answered 401.
C36_TokenSingleUse ==
    \A t \in InvTokens : Cardinality(PastCheck(t)) <= 1

\* C37: an invoice is rendered only when, at that time, invoicing is
\* enabled, the order is completed and the order belongs to the user of the
\* request or of the token, on both paths and whatever changed between the
\* issue of the token and its use.
C37_InvoiceOnlyWhenAllowed ==
    invLast.rendered =>
        /\ invLast.enabled
        /\ invLast.status = "completed"
        /\ invLast.owner # 0
        /\ invLast.owner = invLast.user

\* a token was issued and the order then cancelled: the view with the
\* token was refused with 400; with the order completed again a second
\* token was issued and the view with it got the invoice
C37_Witness ==
    /\ invLast.rendered /\ invLast.via = "token" /\ invLast.user = 1
    /\ \E r \in Views : vwPc[r] = "done" /\ vwTok[r] = 1 /\ vwResp[r] = 400
    /\ \E r \in Views : vwPc[r] = "done" /\ vwTok[r] = 2 /\ vwResp[r] = 200
    /\ invDl = {}

(***************************************************************************)
(* Claims about GetVirtualProducts.                                        *)
(***************************************************************************)
\* C38: GetVirtualProducts returns stock contents of an order only after
\* payment and only to the owner: for an order in draft, need_resubmit or
\* pending_payment, for a cancelled order that was never paid (no order is
\* cancelled after payment here) and for a requester who is not the owner
\* no stock content is returned.
C38_ContentsOnlyAfterPayment ==
    (vpOut.asked /\ vpOut.stocks # {}) =>
        /\ vpOut.user = vpOut.order
        /\ vpOut.status \notin {"draft", "need_resubmit", "pending_payment", "cancelled"}

\* total_pages as the claim states it: the least n with n * limit >= total
CeilDiv(total, limit) ==
    CHOOSE n \in 0..total : n * limit >= total /\ (n = 0 \/ (n - 1) * limit < total)

WellDefined(r) ==
    /\ r.code = 200
    /\ r.limit \in 1..MaxPageLimit
    /\ r.total_pages = CeilDiv(r.total, r.limit)
    /\ r.has_next = (r.page < r.total_pages)
    /\ r.has_prev = (r.page > 1)

\* C39: whatever page and limit a list endpoint is asked with, the request
\* that got its rows answers with a pagination whose limit is in 1..100,
\* whose total_pages is ceil(total / limit), whose has_next says page <
\* total_pages and whose has_prev says page > 1, for a handler that parses
\* with GetPagination and for ListOrders alike.
C39_PaginationWellDefined ==
    (pgPc = "done" /\ pgResp # QueryFailed) => WellDefined(pgResp)

\* the same of the handlers that parse with GetPagination only
GetPaginationWellDefined ==
    (pgVia = "GetPagination" /\ pgPc = "done" /\ pgResp # QueryFailed) => WellDefined(pgResp)

\* a Save or Test was pressed in this step
Pressed == svCount' # svCount

\* the latest visual change reaches onChange at most once
DeliveredAtMostOnce == ceDelivered <= 1

\* a flush clears the timer; with a pending JSON it calls onChange with it
\* and returns it, with none it returns null and calls nothing
FlushDelivers ==
    (Pressed /\ svLast'.sent) =>
        /\ ceDebounce' = {} /\ cePendingJson' = {}
        /\ svLast'.flushed = cePendingJson
        /\ IF cePendingJson # {} THEN {ceValue'} = cePendingJson ELSE ceValue' = ceValue

\* a Save or Test that is sent carries the configuration of the latest edit
SaveUsesLatest == (Pressed /\ svLast'.sent) => svLast'.used = {ceLatest}

\* C40: the latest change of the visual editor reaches onChange exactly
\* once, by the debounce timer or by a flush that comes first; a flush
\* clears the timer, hands on and returns the pending JSON, or returns null
\* and calls nothing when none is pending; and a Save or Test uses the
\* latest configuration.
C40_LatestChangeDeliveredOnce ==
    /\ []DeliveredAtMostOnce
    /\ [][FlushDelivers]_vars
    /\ [][SaveUsesLatest]_vars
    /\ (ceVisual /\ ceDelivered = 0) ~> (ceDelivered = 1)

====
